---- MODULE Spec2Model ----
(***************************************************************************)
(* Model of the rendering-context lifecycle manager of RadSysX:            *)
(*   - CornerstoneService (frontend/lib/services/cornerstoneService.ts):   *)
(*     engine bootstrap with retry, reference-counted rendering engines;   *)
(*   - the helpers it calls in frontend/lib/utils/cornerstone3DInit.ts     *)
(*     (initializeCornerstone3D, createRenderingEngine, createToolGroup,   *)
(*     cleanupCornerstone3D);                                              *)
(*   - the DicomViewer3D component's initialization effect and             *)
(*     setupViewport sequence, which use the service;                      *)
(*   - initialize() of the other CornerstoneService, unnamed/part_006.     *)
(*                                                                         *)
(* The program runs on a single-threaded event loop.  Every action below   *)
(* is one run-to-completion piece of code: from a call (or from the        *)
(* resumption after an `await`) to the next `await` or to the return.      *)
(* Calls into the service may be issued from any continuation, so the      *)
(* pieces of different operations interleave freely.                       *)
(***************************************************************************)
EXTENDS Integers, Sequences, FiniteSets, TLC

----------------------------------------------------------------------------
(* Bounds of the model *)

\* number of bootstrap attempts the components may start in one behaviour
MaxAttempts == 2
\* number of direct initialize()/retryInitialization() calls in one behaviour
MaxCalls == 5

\* the program constant `maxRetries`
maxRetries == 3


\* DicomViewer3D component instances
Viewers == {1, 2}
\* the rendering engine ids the components may draw (engine-${Date.now()})
EngineIds == {"engA"}
\* number of RenderingEngine objects constructed in one behaviour
MaxEngines == 2
\* largest reference count the model lets a registry entry reach
MaxRefCount == 2
\* largest number of image identifiers of a series
MaxIds == 4
\* number of times the initialization effect of the second DicomViewer3D runs
MaxRuns == 2
\* number of series uploaded in one behaviour
MaxSeries == 2
\* number of handleLoadSeries calls in one behaviour
MaxLoads == 2
\* the revocations of one object URL are counted up to this number
MaxRevokes == 2
\* number of initialize() calls of the annotation manager that register listeners
MaxListeners == 2
\* number of records the annotations API holds for the study
MaxRecords == 2
\* number of files of an upload
MaxFiles == 3

----------------------------------------------------------------------------
VARIABLES
    \* CornerstoneService fields (cornerstoneService.ts:20-26)
    initialized,      \* this.initialized
    initializing,     \* this.initializing
    initPromise,      \* this.initPromise: 0 = null, a = the promise of attempt a
    initError,        \* this.initError:  0 = null, a = the error of attempt a
    retryCount,       \* this.retryCount
    \* module state of cornerstone3DInit.ts
    csInitialized,    \* `let initialized` (cornerstone3DInit.ts:362)
    \* bootstrap attempts (one per initializeCornerstone3D() call)
    started,          \* number of attempts started so far; attempt ids are 1..started
    pending,          \* the attempts that have not settled yet
    trivial,          \* the pending attempts that found csInitialized and return at once
    \* the promises handed to the callers of initialize()
    calls,            \* the direct calls so far: sequence of [via, kind, att, result]
    \* rendering engines
    renderingEngines, \* this.renderingEngines: id -> [engine, refCount], engine 0 = no entry
    engines,          \* the RenderingEngine objects ever constructed: [name, state]
    viewports,        \* enabled elements: set of [engine, viewport]
    toolGroups,       \* ToolGroupManager: set of [id, viewport, engineId]
    \* DicomViewer3D component instances
    mounted,          \* the component is mounted in the React tree
    isInitialized,    \* isInitialized ref (DicomViewer3D.tsx:140)
    engineId,         \* renderingEngineId ref (DicomViewer3D.tsx:142)
    pc,               \* where the component's async code is suspended
    awaiting,         \* the initialize() promise the suspended code awaits
    held,             \* the engine object the suspended code holds
    isVolumeData,     \* local of setupViewport
    \* the service of unnamed/part_006
    initState,        \* module object `initState` (part_006:58-70)
    initialized6,     \* this.initialized of that service
    initRuns,         \* the promises of its _initialize() calls: "pending"/"ok"/"err"
    initCallers,      \* its initialize() calls: sequence of [caller, kind, att, result]
    \* the volume-loadability decision (canLoadAsVolume)
    probe,            \* the series probed: [n, meta, loads, inits]
    verdict,          \* what each canLoadAsVolume implementation answered for it
    \* the second DicomViewer3D component (DicomViewer3D.tsx:1032-1196)
    runs,             \* the runs of its initialization effect, oldest first
    v2mounted,        \* the component is mounted
    v2loading,        \* state `loading`
    v2error,          \* state `error`
    v2viewport,       \* state `viewport`: [by, mode], the run that set it and how
    reports,          \* what each run passed to onImageLoaded
    lateCommits,      \* history: state updates and callbacks made by a cancelled run
    \* the AdvancedViewer component (unnamed/part_009)
    adv,              \* [pc, running, n, meta, engine, mode, isLoading, error]
    \* the panel that uploads and loads series (unnamed/part_002:596-740)
    handles,          \* the object URLs ever created: [kind, series, revokes]
    currentSeries,    \* state `currentSeries`: 0 = null, else the series id
    madeSeries,       \* number of series processImageSeries has returned
    uploadsPending,   \* handleUploadComplete calls suspended in processImageSeries
    loadedImages,     \* viewportState.loadedImages: the handles of its image ids
    loadsPending,     \* handleLoadSeries calls suspended in Promise.all: their handles
    panelMounted,     \* the panel is mounted
    discarded,        \* history: the series that were replaced or dropped
    \* tool groups and their tools
    toolMode,         \* ToolGroupManager: group id -> tool name -> mode
    currentTool,      \* state `currentTool` of the second DicomViewer3D
    \* what a release call gives its caller
    releaseCall,      \* the call: [registered, refCount, force, lookupFails, destroyFails]
    releaseEnd,       \* how the call ended on each implementation
    \* the annotation manager (unnamed/part_004) for one tool group
    ann,              \* this.state.get(toolGroupId)
    annEngine,        \* the uids of the annotations the engine holds
    listeners,        \* number of initialize() calls whose listeners are registered
    lastHow,          \* how the last operation ended for its caller
    annRecords,       \* the records the annotations API holds for the study
    saving,           \* saveAnnotations in flight: the uids still to create
    loading,          \* a loadAnnotations call awaits the fetch
    roundTrip,        \* history: "saving" during a save, "saved" from the end
                      \* of a complete save, until the annotations change;
                      \* "resaving" and "resaved" for a save that began when
                      \* a complete save had ended and nothing had changed
    loadedAfterFailure, \* history: the uids the last load reconstructed
                      \* after a record that failed
    loadCaught,       \* history: the last loadAnnotations call ended in the
                      \* catch of its fetch
    \* classifying uploaded files (cornerstoneService.ts:229-433, 623-687)
    file,             \* the file determineFileFormat is asked about
    formatInfo,       \* its answer, "none" before the call
    files,            \* the files processImageSeries is called with
    imageSeries,      \* what the call gave
    damaged,          \* the files of the upload whose content is damaged
    \* the service of unnamed/part_005 (28-134)
    init5,            \* its fields: isInitialized, initializationPromise
                      \* (0 = null, a = the promise of run a), initializationLock
    runs5,            \* the runs of its initialisation body: "pending"/"ok"/"err"
    callers5,         \* its initialize() calls: sequence of [kind, att, result]
    service,          \* the implementation of the service the build holds
    \* history
    staleOps,         \* operations issued on an engine that release had destroyed
    overlap           \* components whose getRenderingEngine call was issued for an
                      \* unregistered id while another call for it was unresolved,
                      \* with no release of the id since

svcVars == <<initialized, initializing, initPromise, initError, retryCount>>
initVars == <<svcVars, csInitialized, started, pending, trivial, calls>>
engVars == <<renderingEngines, engines, viewports, toolGroups>>
refVars == <<mounted, isInitialized, engineId>>
localVars == <<pc, awaiting, held, isVolumeData>>
compVars == <<refVars, localVars>>
histVars == <<staleOps, overlap>>
altVars == <<initState, initialized6, initRuns, initCallers>>
coreVars == <<initVars, engVars, compVars, histVars>>
decVars == <<probe, verdict>>
v2Vars == <<runs, v2mounted, v2loading, v2error, v2viewport, reports, lateCommits>>
advVars == <<adv>>
blobVars == <<handles, currentSeries, madeSeries, uploadsPending, loadedImages,
              loadsPending, panelMounted, discarded>>
toolVars == <<toolMode, currentTool>>
relVars == <<releaseCall, releaseEnd>>
annVars == <<ann, annEngine, listeners, lastHow, annRecords, saving, loading, roundTrip,
            loadedAfterFailure, loadCaught>>
clsVars == <<file, formatInfo, files, imageSeries, damaged>>
s5Vars == <<init5, runs5, callers5, service>>
extVars == <<decVars, v2Vars, advVars, blobVars, toolVars, relVars, annVars, clsVars, s5Vars>>
vars == <<coreVars, altVars, extVars>>
\* what the actions of one part of the program leave alone
exceptDec == <<coreVars, altVars, v2Vars, advVars, blobVars, toolVars, relVars, annVars, clsVars, s5Vars>>
exceptV2 == <<coreVars, altVars, decVars, advVars, blobVars, toolVars, relVars, annVars, clsVars, s5Vars>>
exceptAdv == <<coreVars, altVars, decVars, v2Vars, blobVars, toolVars, relVars, annVars, clsVars, s5Vars>>
exceptBlob == <<coreVars, altVars, decVars, v2Vars, advVars, toolVars, relVars, annVars, clsVars, s5Vars>>
exceptTool == <<coreVars, altVars, decVars, v2Vars, advVars, blobVars, relVars, annVars, clsVars, s5Vars>>
exceptRel == <<coreVars, altVars, decVars, v2Vars, advVars, blobVars, toolVars, annVars, clsVars, s5Vars>>
exceptAnn == <<coreVars, altVars, decVars, v2Vars, advVars, blobVars, toolVars, relVars, clsVars, s5Vars>>
exceptCls == <<coreVars, altVars, decVars, v2Vars, advVars, blobVars, toolVars, relVars, annVars, s5Vars>>
exceptS5 == <<coreVars, altVars, decVars, v2Vars, advVars, blobVars, toolVars, relVars, annVars, clsVars>>

----------------------------------------------------------------------------
(* CornerstoneService.initialize -- cornerstoneService.ts:31-66 *)

SvcState == [initialized |-> initialized, initializing |-> initializing,
             initPromise |-> initPromise, initError |-> initError,
             retryCount |-> retryCount]

NextAttempt == started + 1

\* variant of the test of line 35: the retries are never exhausted
Exhausted_Never(s) == FALSE

\* line 35: this.initError && this.retryCount >= this.maxRetries
Exhausted(s) == s.initError # 0 /\ s.retryCount >= maxRetries

\* variant of initialize() without the branch of lines 40-42: a call made
\* while a bootstrap is in flight starts another one
initialize_NoSharing(s) ==
    IF s.initialized
    THEN [s |-> s, kind |-> "ready", att |-> 0]
    ELSE IF Exhausted(s)
    THEN [s |-> s, kind |-> "failfast", att |-> 0]
    ELSE [s |-> [s EXCEPT !.initializing = TRUE, !.initPromise = NextAttempt],
          kind |-> "started", att |-> NextAttempt]

\* The synchronous body of initialize() run on the service state s.
\* kind: what the call did; att: the attempt whose promise the caller gets.
initialize(s) ==
    IF s.initialized
    THEN [s |-> s, kind |-> "ready", att |-> 0]
    ELSE IF Exhausted(s)
    THEN [s |-> s, kind |-> "failfast", att |-> 0]
    ELSE IF s.initializing /\ s.initPromise # 0
    THEN [s |-> s, kind |-> "joined", att |-> s.initPromise]
    ELSE [s |-> [s EXCEPT !.initializing = TRUE, !.initPromise = NextAttempt],
          kind |-> "started", att |-> NextAttempt]

\* the state of the promise returned by a call at the moment it is returned
FirstResult(kind) ==
    CASE kind = "ready"    -> "ok"
      [] kind = "failfast" -> "err"
      [] OTHER             -> "pending"

\* the promise an initialize() call made on state s hands to its caller;
\* via names the method the caller invoked
InitRec(s, via) ==
    LET r == initialize(s) IN
    [via |-> via, kind |-> r.kind, att |-> r.att, result |-> FirstResult(r.kind)]

\* Commit the effect of one initialize() call made on state s.
DoInitialize(s) ==
    LET r == initialize(s) IN
    /\ initialized' = r.s.initialized
    /\ initializing' = r.s.initializing
    /\ initPromise' = r.s.initPromise
    /\ initError' = r.s.initError
    /\ retryCount' = r.s.retryCount
    /\ IF r.kind = "started"
       THEN /\ started' = r.att
            /\ pending' = pending \cup {r.att}
            /\ trivial' = IF csInitialized THEN trivial \cup {r.att} ELSE trivial
       ELSE UNCHANGED <<started, pending, trivial>>

\* an initialize() call of a component, with the model's bound on attempts
CompInitialize ==
    /\ initialize(SvcState).kind = "started" => started < MaxAttempts
    /\ DoInitialize(SvcState)

\* a direct call of cornerstoneService.initialize()
InitCall ==
    /\ Len(calls) < MaxCalls
    /\ DoInitialize(SvcState)
    /\ calls' = Append(calls, InitRec(SvcState, "initialize"))
    /\ UNCHANGED <<csInitialized, engVars, compVars, histVars>>
    /\ UNCHANGED <<altVars, extVars>>

\* CornerstoneService.retryInitialization -- cornerstoneService.ts:71-79
retryReset(s) ==
    [s EXCEPT !.initialized = FALSE, !.initializing = FALSE, !.initPromise = 0]

RetryInitialization ==
    /\ Len(calls) < MaxCalls
    /\ DoInitialize(retryReset(SvcState))
    /\ calls' = Append(calls, InitRec(retryReset(SvcState), "retry"))
    /\ UNCHANGED <<csInitialized, engVars, compVars, histVars>>
    /\ UNCHANGED <<altVars, extVars>>

\* variant of Settle without the `reject(error)` of line 61
Settle_ResolveOnly(w, a, r) ==
    IF w.att = a /\ w.result = "pending" /\ r = "ok" THEN [w EXCEPT !.result = r] ELSE w

\* settle with r the promise w if it is the one of attempt a
Settle(w, a, r) ==
    IF w.att = a /\ w.result = "pending" THEN [w EXCEPT !.result = r] ELSE w

\* the promises of the callers attached to attempt a are settled with r
Deliver(a, r) ==
    /\ calls' = [i \in 1..Len(calls) |-> Settle(calls[i], a, r)]
    /\ awaiting' = [p \in Viewers |-> Settle(awaiting[p], a, r)]

\* initializeCornerstone3D() resolves: the .then handler, lines 48-55
BootstrapOk(a) ==
    /\ a \in pending
    /\ pending' = pending \ {a}
    /\ trivial' = trivial \ {a}
    /\ csInitialized' = TRUE
    /\ initialized' = TRUE
    /\ initializing' = FALSE
    /\ initError' = 0
    /\ retryCount' = 0
    /\ Deliver(a, "ok")
    /\ UNCHANGED <<initPromise, started, engVars, histVars>>
    /\ UNCHANGED <<refVars, pc, held, isVolumeData>>
    /\ UNCHANGED <<altVars, extVars>>

\* initializeCornerstone3D() rejects: the .catch handler, lines 56-62
BootstrapFail(a) ==
    /\ a \in pending \ trivial
    /\ pending' = pending \ {a}
    /\ initializing' = FALSE
    /\ retryCount' = retryCount + 1
    /\ initError' = a
    /\ Deliver(a, "err")
    /\ UNCHANGED <<initialized, initPromise, csInitialized, started, trivial,
                   engVars, histVars>>
    /\ UNCHANGED <<refVars, pc, held, isVolumeData>>
    /\ UNCHANGED <<altVars, extVars>>

----------------------------------------------------------------------------
(* The service of unnamed/part_006: CornerstoneService.initialize, 236-267 *)

\* a call of initialize() by `caller`
Initialize6(caller) ==
    /\ Len(initCallers) < MaxCalls
    /\ IF initialized6
       THEN \* lines 242-244
            /\ initCallers' = Append(initCallers,
                   [caller |-> caller, kind |-> "ready", att |-> 0, result |-> "ok"])
            /\ UNCHANGED <<initState, initRuns>>
       ELSE IF initState.initPromise # 0
       THEN \* lines 247-249: the stored promise, whatever its state
            /\ initCallers' = Append(initCallers,
                   [caller |-> caller, kind |-> "joined", att |-> initState.initPromise,
                    result |-> initRuns[initState.initPromise]])
            /\ UNCHANGED <<initState, initRuns>>
       ELSE \* lines 252-256, up to the await
            /\ initRuns' = Append(initRuns, "pending")
            /\ initState' = [initState EXCEPT !.isInitializing = TRUE,
                                              !.initPromise = Len(initRuns) + 1]
            /\ initCallers' = Append(initCallers,
                   [caller |-> caller, kind |-> "started", att |-> Len(initRuns) + 1,
                    result |-> "pending"])
    /\ UNCHANGED <<initialized6, initVars, engVars, compVars, histVars>>
    /\ UNCHANGED extVars

\* _initialize() of run a settles (part_006:269-296); the callers that were
\* handed its promise see the outcome
Settle6(a, r) ==
    /\ a \in 1..Len(initRuns)
    /\ initRuns[a] = "pending"
    /\ initRuns' = [initRuns EXCEPT ![a] = r]
    /\ initCallers' = [i \in 1..Len(initCallers) |->
           IF initCallers[i].kind = "joined" /\ initCallers[i].att = a
           THEN [initCallers[i] EXCEPT !.result = r] ELSE initCallers[i]]
    /\ UNCHANGED <<initState, initialized6, initVars, engVars, compVars, histVars>>
    /\ UNCHANGED extVars

\* the call that started run a resumes after its await, lines 256-266
Resume6(i) ==
    /\ i \in 1..Len(initCallers)
    /\ initCallers[i].kind = "started"
    /\ initCallers[i].result = "pending"
    /\ initRuns[initCallers[i].att] # "pending"
    /\ IF initRuns[initCallers[i].att] = "ok"
       THEN /\ initState' = [initState EXCEPT !.isInitialized = TRUE,
                                              !.isInitializing = FALSE]
            /\ initialized6' = TRUE
       ELSE /\ initState' = [initState EXCEPT !.error = initCallers[i].att,
                                              !.isInitializing = FALSE]
            /\ UNCHANGED initialized6
    /\ initCallers' = [initCallers EXCEPT ![i].result = initRuns[initCallers[i].att]]
    /\ UNCHANGED <<initRuns, initVars, engVars, compVars, histVars>>
    /\ UNCHANGED extVars

----------------------------------------------------------------------------
(* The volume-loadability decision: the canLoadAsVolume implementations *)

\* the geometric metadata fields of an image; imagePixelSpacing and
\* pixelSpacing count as one field, as every implementation takes either
Fields == {"pixelSpacing", "orientation", "position", "sliceThickness"}

\* A probed series: n identifiers; meta, the fields the metadata provider
\* has for the first identifier; loads, whether loadAndCacheImage of the
\* first identifier succeeds; inits, whether cornerstoneService.initialize()
\* succeeds.
Probes == [n : 0..MaxIds, meta : SUBSET Fields, loads : BOOLEAN, inits : BOOLEAN]

NoSeries == [n |-> 0, meta |-> {}, loads |-> FALSE, inits |-> FALSE]

answer(b) == IF b THEN "true" ELSE "false"

\* variant of cornerstone3DInit.ts:180-210 without its try/catch
canLoadAsVolume_NoCatch(s) ==
    IF s.n < 3 THEN "false"
    ELSE IF ~s.loads THEN "raise"
    ELSE answer(Fields \subseteq s.meta)

\* variant of cornerstone3DInit.ts:180-210 that accepts two identifiers
canLoadAsVolume_Two(s) ==
    IF s.n < 2 THEN "false"
    ELSE IF ~s.loads THEN "false"
    ELSE answer(Fields \subseteq s.meta)

\* canLoadAsVolume -- cornerstone3DInit.ts:180-210
canLoadAsVolume(s) ==
    IF s.n < 3 THEN "false"
    ELSE IF ~s.loads THEN "false"
    ELSE answer(Fields \subseteq s.meta)

\* canLoadAsVolume -- cornerstone3DInit.ts:1233-1236
canLoadAsVolumeByCount(s) == answer(s.n >= 3)

\* VolumeLoaderService.canLoadAsVolume -- services/cornerstone/volumeLoader.ts:108-130
\* (no image is loaded and the slice thickness is not looked at)
VolumeLoaderService_canLoadAsVolume(s) ==
    IF s.n < 3 THEN "false"
    ELSE answer({"pixelSpacing", "orientation", "position"} \subseteq s.meta)

\* VolumeLoaderService.canLoadAsVolume -- unnamed/part_003:120-182
VolumeLoaderService3_canLoadAsVolume(s) ==
    IF s.n < 3 THEN "false"
    ELSE IF ~s.inits THEN "false"
    ELSE IF ~s.loads THEN "false"
    ELSE answer(Fields \subseteq s.meta /\ s.n >= 3)

Deciders == {"cornerstone3DInit:180", "cornerstone3DInit:1233",
             "volumeLoader.ts", "part_003"}

decide(d, s) ==
    CASE d = "cornerstone3DInit:180"  -> canLoadAsVolume(s)
      [] d = "cornerstone3DInit:1233" -> canLoadAsVolumeByCount(s)
      [] d = "volumeLoader.ts"        -> VolumeLoaderService_canLoadAsVolume(s)
      [] d = "part_003"               -> VolumeLoaderService3_canLoadAsVolume(s)

NoVerdict == [d \in Deciders |-> "none"]

\* a series is uploaded and probed
NewProbe(s) ==
    /\ probe' = s
    /\ verdict' = NoVerdict
    /\ UNCHANGED exceptDec

\* implementation d is asked about the series
Decide(d) ==
    /\ verdict[d] = "none"
    /\ verdict' = [verdict EXCEPT ![d] = decide(d, probe)]
    /\ probe' = probe
    /\ UNCHANGED exceptDec

----------------------------------------------------------------------------
(* The initialization effect of the second DicomViewer3D component --       *)
(* DicomViewer3D.tsx:1032-1196.  A run of the effect is one call of         *)
(* initializeViewer with its own `isCancelled`; the cleanup of the effect   *)
(* (1192-1195) sets the flag of the run it belongs to.                      *)

RunIds == 1..MaxRuns

NoReport == [success |-> FALSE, is2D |-> FALSE, made |-> FALSE]
Report(success, is2D) == [success |-> success, is2D |-> is2D, made |-> TRUE]

NoViewport == [by |-> 0, mode |-> "none"]

\* the closure of a run at its start (lines 1033-1036)
NewRun(n, active) ==
    [n |-> n, active |-> active, pc |-> "ensure", isCancelled |-> FALSE,
     useStackMode |-> FALSE, stackTried |-> FALSE, volumeFailed |-> FALSE]

\* the two canLoadAsVolume exported by cornerstone3DInit.ts, which line 1060 calls
ImportedDeciders == {"cornerstone3DInit:180", "cornerstone3DInit:1233"}

\* the cleanup function of the current run (1192-1195)
cancelCurrent ==
    IF runs = <<>> THEN runs
    ELSE [runs EXCEPT ![Len(runs)].isCancelled = TRUE]

\* a React state setter: ignored once the component is unmounted
setState(old, new) == IF v2mounted THEN new ELSE old

\* what a run that is cancelled adds to the history when it updates state
late(r, what) == IF runs[r].isCancelled THEN {<<r, what>>} ELSE {}

\* the effect runs: first mount, or a dependency (imageIds, isActive, ...) changed
V2Effect(n, active) ==
    /\ v2mounted
    /\ Len(runs) < MaxRuns
    /\ runs' = Append(cancelCurrent, NewRun(n, active))
    /\ UNCHANGED <<v2mounted, v2loading, v2error, v2viewport, reports, lateCommits>>
    /\ UNCHANGED exceptV2

\* the component is unmounted: the cleanup of the current run is called
V2Unmount ==
    /\ v2mounted
    /\ runs # <<>>
    /\ v2mounted' = FALSE
    /\ runs' = cancelCurrent
    /\ UNCHANGED <<v2loading, v2error, v2viewport, reports, lateCommits>>
    /\ UNCHANGED exceptV2

\* a catch block of initializeViewer (1094-1101, 1170-1178, 1179-1187);
\* run is the closure of the run when the exception is caught
Caught(r, msg, is2D, run) ==
    /\ runs' = [runs EXCEPT ![r] = [run EXCEPT !.pc = "done"]]
    /\ IF runs[r].isCancelled
       THEN UNCHANGED <<v2loading, v2error, reports>>
       ELSE /\ v2error' = setState(v2error, msg)
            /\ v2loading' = setState(v2loading, FALSE)
            /\ reports' = [reports EXCEPT ![r] = Report(FALSE, is2D)]
    /\ UNCHANGED <<v2mounted, v2viewport, lateCommits>>

\* lines 1082-1091 and 1156-1168: the run commits its result
Commit(r, mode, is2D) ==
    /\ runs' = [runs EXCEPT ![r].pc = "done"]
    /\ v2viewport' = setState(v2viewport, [by |-> r, mode |-> mode])
    /\ v2loading' = setState(v2loading, FALSE)
    /\ v2error' = setState(v2error, "none")
    /\ reports' = [reports EXCEPT ![r] = Report(TRUE, is2D)]
    /\ lateCommits' = lateCommits \cup late(r, mode)
    /\ UNCHANGED v2mounted

\* the run returns without doing anything more
Return(r) ==
    /\ runs' = [runs EXCEPT ![r].pc = "done"]
    /\ UNCHANGED <<v2mounted, v2loading, v2error, v2viewport, reports, lateCommits>>

\* resumption after `await cornerstoneService.ensureInitialized()` (1039-1069)
V2Ensured(r, ok) ==
    /\ r \in 1..Len(runs)
    /\ runs[r].pc = "ensure"
    /\ IF ~ok
       THEN Caught(r, "Failed to initialize viewer", FALSE, runs[r])
       ELSE IF ~runs[r].active \/ runs[r].n = 0
       THEN Return(r)
       ELSE /\ v2loading' = setState(v2loading, TRUE)
            /\ v2error' = setState(v2error, "none")
            /\ lateCommits' = lateCommits \cup late(r, "reset")
            /\ runs' = [runs EXCEPT ![r] =
                   IF runs[r].n = 1
                   THEN [@ EXCEPT !.useStackMode = TRUE, !.stackTried = TRUE,
                                  !.pc = "stack"]
                   ELSE [@ EXCEPT !.pc = "canLoad"]]
            /\ UNCHANGED <<v2mounted, v2viewport, reports>>
    /\ UNCHANGED exceptV2

\* resumption after `await canLoadAsVolume(imageIds)` (1060-1078, 1104-1112)
V2Decided(r, res) ==
    /\ r \in 1..Len(runs)
    /\ runs[r].pc = "canLoad"
    /\ \E d \in ImportedDeciders, s \in Probes : s.n = runs[r].n /\ res = decide(d, s)
    /\ runs' = [runs EXCEPT ![r] =
           IF res = "true"
           THEN [@ EXCEPT !.useStackMode = FALSE, !.pc = "createVolume"]
           ELSE [@ EXCEPT !.useStackMode = TRUE, !.stackTried = TRUE, !.pc = "stack"]]
    /\ UNCHANGED <<v2mounted, v2loading, v2error, v2viewport, reports, lateCommits>>
    /\ UNCHANGED exceptV2

\* resumption after `await cornerstoneService.loadAndDisplayImageStack(...)` (1073-1102)
V2StackLoaded(r, ok) ==
    /\ r \in 1..Len(runs)
    /\ runs[r].pc = "stack"
    /\ IF ~ok THEN Caught(r, "Failed to load image", TRUE, runs[r])
       ELSE IF runs[r].isCancelled THEN Return(r)
       ELSE Commit(r, "stack", TRUE)
    /\ UNCHANGED exceptV2

\* resumption after `await volumeLoader.createAndCacheVolume(...)` (1110-1143)
V2VolumeCreated(r, ok) ==
    /\ r \in 1..Len(runs)
    /\ runs[r].pc = "createVolume"
    /\ IF ~ok
       THEN Caught(r, "Failed to initialize volume viewer", FALSE,
                   [runs[r] EXCEPT !.volumeFailed = TRUE])
       ELSE IF runs[r].isCancelled THEN Return(r)
       ELSE /\ runs' = [runs EXCEPT ![r].pc = "volumeLoad"]
            /\ UNCHANGED <<v2mounted, v2loading, v2error, v2viewport, reports,
                           lateCommits>>
    /\ UNCHANGED exceptV2

\* resumption after `await volume.load()` (1143-1148)
V2VolumeLoaded(r, ok) ==
    /\ r \in 1..Len(runs)
    /\ runs[r].pc = "volumeLoad"
    /\ IF ~ok
       THEN Caught(r, "Failed to initialize volume viewer", FALSE,
                   [runs[r] EXCEPT !.volumeFailed = TRUE])
       ELSE IF runs[r].isCancelled THEN Return(r)
       ELSE /\ runs' = [runs EXCEPT ![r].pc = "setVolumes"]
            /\ UNCHANGED <<v2mounted, v2loading, v2error, v2viewport, reports,
                           lateCommits>>
    /\ UNCHANGED exceptV2

\* resumption after `await setVolumesForViewports(...)` (1148-1178)
V2VolumesSet(r, ok) ==
    /\ r \in 1..Len(runs)
    /\ runs[r].pc = "setVolumes"
    /\ IF ~ok
       THEN Caught(r, "Failed to initialize volume viewer", FALSE,
                   [runs[r] EXCEPT !.volumeFailed = TRUE])
       ELSE Commit(r, "volume", FALSE)
    /\ UNCHANGED exceptV2

----------------------------------------------------------------------------
(* The setup effect of AdvancedViewer -- unnamed/part_009:243-383 *)

\* the component before its first setup
AdvInit ==
    [pc |-> "idle", running |-> FALSE, n |-> 0, meta |-> {},
     engine |-> "none", mode |-> "none", isLoading |-> FALSE, error |-> FALSE]

\* the catch block of setup (372-380)
AdvCaught ==
    /\ adv' = [adv EXCEPT !.pc = "idle", !.error = TRUE, !.isLoading = FALSE,
                          !.running = FALSE]
    /\ UNCHANGED exceptAdv

\* the effect runs for a series of s.n files whose first image has the
\* metadata s.meta (244-262); a run made while `running` is set returns
AdvSetup(s) ==
    /\ ~adv.running
    /\ adv' = [adv EXCEPT !.pc = "init", !.running = TRUE, !.isLoading = TRUE,
                          !.error = FALSE, !.n = s.n, !.meta = s.meta]
    /\ UNCHANGED exceptAdv

\* resumption after `await initializeCornerstoneAndTools()`: the engine is
\* created and three ORTHOGRAPHIC viewports are enabled (262-310)
AdvInitialized(ok) ==
    /\ adv.pc = "init"
    /\ IF ~ok THEN AdvCaught
       ELSE /\ adv' = [adv EXCEPT !.pc = "imageIds", !.engine = "orthographic"]
            /\ UNCHANGED exceptAdv

\* resumption after the image identifiers were made (313-321)
AdvImageIds(ok) ==
    /\ adv.pc = "imageIds"
    /\ IF ~ok \/ adv.n = 0 THEN AdvCaught
       ELSE /\ adv' = [adv EXCEPT !.pc = "createVolume"]
            /\ UNCHANGED exceptAdv

\* resumption after `await volumeLoader.createAndCacheVolume(...)` (318-365)
AdvVolumeCreated(ok) ==
    /\ adv.pc = "createVolume"
    /\ IF ~ok THEN AdvCaught
       ELSE /\ adv' = [adv EXCEPT !.pc = "setVolumes"]
            /\ UNCHANGED exceptAdv

\* resumption after `await setVolumesForViewports(...)` (356-371)
AdvVolumesSet(ok) ==
    /\ adv.pc = "setVolumes"
    /\ IF ~ok THEN AdvCaught
       ELSE /\ adv' = [adv EXCEPT !.pc = "done", !.mode = "volume",
                                  !.isLoading = FALSE]
            /\ UNCHANGED exceptAdv

----------------------------------------------------------------------------
(* Object URLs of the uploaded series -- cornerstoneService.ts:229-345,     *)
(* 581-591, 623-687 and the panel of unnamed/part_002:596-740.  A series    *)
(* of one file is modelled: it owns one URL per place that creates one.     *)

\* an object URL: kind "imageId" is the URL inside `wadouri:${objectUrl}`
\* (createImageIdsFromFiles), "localUrl" is ProcessedImage.localUrl
\* (processImageSeries), "loaded" is the URL inside a loadedImages image id
\* (handleLoadSeries)
Handle(kind, series) == [kind |-> kind, series |-> series, revokes |-> 0]

HandleIds == DOMAIN handles

\* URL.revokeObjectURL on each handle of hs, applied to the handle table hd
revokeObjectURL(hd, hs) ==
    [h \in DOMAIN hd |->
        IF h \in hs /\ hd[h].revokes < MaxRevokes
        THEN [hd[h] EXCEPT !.revokes = @ + 1]
        ELSE hd[h]]

\* cleanupImageSeries(series) -- cornerstoneService.ts:581-591
cleanupImageSeries(hd, series) ==
    revokeObjectURL(hd, {h \in DOMAIN hd :
                            hd[h].series = series /\ hd[h].kind = "localUrl"})

\* the URLs processImageSeries creates for a series of one file:
\* createImageIdsFromFiles (line 286) and URL.createObjectURL (line 298)
processImageSeries(hd, series) ==
    hd \o <<Handle("imageId", series), Handle("localUrl", series)>>

\* handleUploadComplete up to `await processImageSeries(files)` (710-725)
UploadStart ==
    /\ panelMounted
    /\ madeSeries + uploadsPending < MaxSeries
    /\ handles' = (IF currentSeries # 0
                   THEN cleanupImageSeries(handles, currentSeries) ELSE handles)
    /\ uploadsPending' = uploadsPending + 1
    /\ UNCHANGED <<currentSeries, madeSeries, loadedImages, loadsPending,
                   panelMounted, discarded>>
    /\ UNCHANGED exceptBlob

\* resumption of handleUploadComplete (725-739): on success
\* setCurrentSeries(series), upon which React runs the cleanup of the effect
\* of lines 600-606 for the series that was current
UploadDone(ok) ==
    /\ uploadsPending > 0
    /\ uploadsPending' = uploadsPending - 1
    /\ IF ~ok
       THEN UNCHANGED <<handles, currentSeries, madeSeries, discarded>>
       ELSE LET series == madeSeries + 1
                made == processImageSeries(handles, series) IN
            /\ madeSeries' = series
            /\ IF panelMounted
               THEN /\ currentSeries' = series
                    /\ handles' = (IF currentSeries # 0
                                   THEN cleanupImageSeries(made, currentSeries)
                                   ELSE made)
                    /\ discarded' = discarded \cup ({currentSeries} \ {0})
               ELSE /\ currentSeries' = currentSeries
                    /\ handles' = made
                    /\ discarded' = discarded \cup {series}
    /\ UNCHANGED <<loadedImages, loadsPending, panelMounted>>
    /\ UNCHANGED exceptBlob

\* handleLoadSeries up to `await Promise.all(...)` (613-651): the URLs of the
\* loaded images are revoked and a URL is created for the file of the series
LoadStart ==
    /\ panelMounted
    /\ currentSeries # 0
    /\ Cardinality({h \in HandleIds : handles[h].kind = "loaded"}) < MaxLoads
    /\ handles' = Append(revokeObjectURL(handles, loadedImages),
                         Handle("loaded", currentSeries))
    /\ loadsPending' = loadsPending \cup {Len(handles) + 1}
    /\ UNCHANGED <<currentSeries, madeSeries, uploadsPending, loadedImages,
                   panelMounted, discarded>>
    /\ UNCHANGED exceptBlob

\* resumption of handleLoadSeries: setViewportState (653-657)
LoadDone(h) ==
    /\ h \in loadsPending
    /\ loadsPending' = loadsPending \ {h}
    /\ loadedImages' = {h}
    /\ UNCHANGED <<handles, currentSeries, madeSeries, uploadsPending,
                   panelMounted, discarded>>
    /\ UNCHANGED exceptBlob

\* the panel is unmounted: the cleanup of the effect of 600-606 runs for the
\* current series; the cleanup of 676-689 has no dependencies and sees the
\* loadedImages of the first render, which is empty (part_002:1029)
PanelUnmount ==
    /\ panelMounted
    /\ panelMounted' = FALSE
    /\ handles' = (IF currentSeries # 0
                   THEN cleanupImageSeries(handles, currentSeries) ELSE handles)
    /\ discarded' = discarded \cup ({currentSeries} \ {0})
    /\ UNCHANGED <<currentSeries, madeSeries, uploadsPending, loadedImages,
                   loadsPending>>
    /\ UNCHANGED exceptBlob

----------------------------------------------------------------------------
(* Tool groups and their tools -- cornerstone3DInit.ts:124-175, 788-828 and *)
(* the tool effect of the second DicomViewer3D, DicomViewer3D.tsx:1223-1265 *)

\* the tool groups of the model
GroupIds == {"toolgroup"}

\* the tools setToolActive sets passive (cornerstone3DInit.ts:804-816)
ListedTools == {"Pan", "Zoom", "WindowLevel", "Length", "RectangleROI",
                "EllipticalROI", "Angle", "Probe", "Brush", "StackScroll",
                "Magnify"}

\* the tools createToolGroup adds to a group (cornerstone3DInit.ts:140-155)
GroupTools == ListedTools \cup {"CircleROI", "Crosshairs", "VolumeRotateMouseWheel"}

\* the toolbar tools of the model and their engine tool
\* (mapUiToolToCornerstone3D, cornerstone3DInit.ts:215-254)
UiTools == {"pan", "zoom", "distance", "circleRoi", "crosshairs"}

mapUiToolToCornerstone3D(tool) ==
    CASE tool = "pan"        -> "Pan"
      [] tool = "zoom"       -> "Zoom"
      [] tool = "distance"   -> "Length"
      [] tool = "circleRoi"  -> "CircleROI"
      [] tool = "crosshairs" -> "Crosshairs"
      [] OTHER               -> "Pan"

\* no group of that id in the ToolGroupManager
NoGroup == [t \in GroupTools |-> "absent"]

\* toolGroup.addTool(name, {mode}) for each tool of the list: the tool
\* instance is added to the group; a tool instance starts in mode Disabled
\* and the second argument of addTool is the tool's configuration
addedTools == [t \in GroupTools |-> "Disabled"]

\* the tools of group g that are in mode Active
activeTools(g) == {t \in GroupTools : toolMode[g][t] = "Active"}

\* createToolGroup(toolGroupId, viewportIds, renderingEngineId)
\*   -- cornerstone3DInit.ts:124-175: a group of that id is destroyed first
CreateGroupTools(g) ==
    /\ toolMode' = [toolMode EXCEPT ![g] = addedTools]
    /\ UNCHANGED currentTool
    /\ UNCHANGED exceptTool

\* the tool modes setToolActive leaves (cornerstone3DInit.ts:803-826): the
\* listed tools other than toolName are set passive, then toolName is set active
setToolActive(modes, toolName) ==
    [t \in GroupTools |->
        IF t = toolName THEN "Active"
        ELSE IF t \in ListedTools THEN "Passive"
        ELSE modes[t]]

\* setToolActive(toolGroupId, toolName) -- cornerstone3DInit.ts:788-828;
\* for a group that does not exist it warns and returns
SetToolActive(g, toolName) ==
    /\ toolMode[g] # NoGroup
    /\ toolMode' = [toolMode EXCEPT ![g] = setToolActive(toolMode[g], toolName)]
    /\ UNCHANGED currentTool
    /\ UNCHANGED exceptTool

\* updateTool of the second DicomViewer3D for the new activeTool
\*   -- DicomViewer3D.tsx:1223-1265.  With no group, createToolGroup (which
\* the file does not import) is called and the catch ends the update; created
\* says whether a group was made before the exception.
UpdateTool(g, activeTool, created) ==
    /\ IF toolMode[g] = NoGroup
       THEN /\ toolMode' = [toolMode EXCEPT ![g] =
                               IF created THEN addedTools ELSE NoGroup]
            /\ UNCHANGED currentTool
       ELSE /\ toolMode' = [toolMode EXCEPT ![g] =
                   [[@ EXCEPT ![mapUiToolToCornerstone3D(currentTool)] = "Passive"]
                       EXCEPT ![mapUiToolToCornerstone3D(activeTool)] = "Active"]]
            /\ currentTool' = activeTool
    /\ UNCHANGED exceptTool

----------------------------------------------------------------------------
(* AnnotationManagerService for one tool group -- unnamed/part_004:99-873   *)

\* the annotation uids of the model
Uids == {"a", "b"}

\* the group ids callers pass to addAnnotationToGroup
AnnotationGroupIds == {"g", "h", "k"}

\* an entry of the metadata map: has, the map has the entry; isLocked and
\* isVisible are "none" when the entry does not have the property
NoMetadata == [has |-> FALSE, groupId |-> "none", isLocked |-> "none", isVisible |-> "none"]

\* ensureStateExists (862-873): the state of a tool group when it is created;
\* a group that annotationGroups does not have is one without members
NoAnnotations ==
    [selected |-> {}, lockedAnnotations |-> {}, hiddenAnnotations |-> {},
     annotationGroups |-> [g \in AnnotationGroupIds |-> {}],
     metadata |-> [u \in Uids |-> NoMetadata]]

\* the uids that are a member of some group
grouped(st) == UNION {st.annotationGroups[g] : g \in AnnotationGroupIds}

\* the uids that have an entry in the metadata map
metadataKeys(st) == {u \in Uids : st.metadata[u].has}

\* `metadata.get(uid) || {}` ... metadata.set(uid, metadata)
\* (428-430, 456-458, 484-486, 504-506): the entry exists afterwards
touch(st, u) == [st EXCEPT !.metadata[u].has = TRUE]

\* variant of the try/catch around the engine call: the error is rethrown
forward_Rethrows(engineOk) == IF engineOk THEN "returned" ELSE "raised"

\* the try/catch around the engine call of each operation (363-375,
\* 385-397, 433-446, 461-474, 489-496, 509-516): an error is logged
forward(engineOk) == "returned"

selectAnnotation(st, u) == [st EXCEPT !.selected = @ \cup {u}]
deselectAnnotation(st, u) == [st EXCEPT !.selected = @ \ {u}]
lockAnnotation(st, u) ==
    touch([st EXCEPT !.lockedAnnotations = @ \cup {u}, !.metadata[u].isLocked = "true"], u)
unlockAnnotation(st, u) ==
    touch([st EXCEPT !.lockedAnnotations = @ \ {u}, !.metadata[u].isLocked = "false"], u)
hideAnnotation(st, u) ==
    touch([st EXCEPT !.hiddenAnnotations = @ \cup {u}, !.metadata[u].isVisible = "false"], u)
showAnnotation(st, u) ==
    touch([st EXCEPT !.hiddenAnnotations = @ \ {u}, !.metadata[u].isVisible = "true"], u)

\* addAnnotationToGroup(toolGroupId, uid, groupId) -- 524-539: the uid joins
\* the set of the group and the metadata names the group; the set of the
\* group it was in before is not touched
addAnnotationToGroup(st, u, groupId) ==
    [st EXCEPT !.annotationGroups[groupId] = @ \cup {u},
               !.metadata[u].has = TRUE, !.metadata[u].groupId = groupId]

\* removeAnnotationFromGroup(toolGroupId, uid, groupId?) -- 542-565; groupId
\* "none": the call has no groupId and the group is looked up in the
\* metadata of the annotation
removeAnnotationFromGroup(st, u, groupId) ==
    IF groupId = "none" /\ (~st.metadata[u].has \/ st.metadata[u].groupId = "none")
    THEN st
    ELSE LET g == IF groupId = "none" THEN st.metadata[u].groupId ELSE groupId
         IN [st EXCEPT !.annotationGroups[g] = @ \ {u},
                       !.metadata[u].has = TRUE, !.metadata[u].groupId = "none"]

\* the isLocked / isVisible properties a caller passes to
\* setAnnotationMetadata; "none": the argument does not have the property
Partials == [isLocked : {"none", "true", "false"}, isVisible : {"none", "true", "false"}]

\* setAnnotationMetadata(toolGroupId, uid, metadata) -- 600-616: the
\* properties of the argument replace those of the entry
setAnnotationMetadata(st, u, m) ==
    [st EXCEPT !.metadata[u].has = TRUE,
               !.metadata[u].isLocked = IF m.isLocked = "none" THEN @ ELSE m.isLocked,
               !.metadata[u].isVisible = IF m.isVisible = "none" THEN @ ELSE m.isVisible]

\* the ANNOTATION_ADDED listener (137-155): setAnnotationMetadata with
\* isLocked: false, isVisible: true
onAnnotationAdded(st, u) ==
    setAnnotationMetadata(st, u, [isLocked |-> "false", isVisible |-> "true"])

\* the ANNOTATION_REMOVED listener (182-202)
onAnnotationRemoved(st, u) ==
    LET r == removeAnnotationFromGroup(
                 [st EXCEPT !.selected = @ \ {u},
                            !.lockedAnnotations = @ \ {u},
                            !.hiddenAnnotations = @ \ {u}], u, "none")
    IN [r EXCEPT !.metadata[u] = NoMetadata]

\* the local part of deleteAnnotation (619-633)
deleteAnnotation(st, u) ==
    [st EXCEPT !.selected = @ \ {u}, !.lockedAnnotations = @ \ {u},
               !.hiddenAnnotations = @ \ {u},
               !.annotationGroups = [g \in AnnotationGroupIds |-> @[g] \ {u}],
               !.metadata[u] = NoMetadata]

\* the six operations of 356-517 by name
Operations == {"select", "deselect", "lock", "unlock", "hide", "show"}

operate(op, st, u) ==
    CASE op = "select"   -> selectAnnotation(st, u)
      [] op = "deselect" -> deselectAnnotation(st, u)
      [] op = "lock"     -> lockAnnotation(st, u)
      [] op = "unlock"   -> unlockAnnotation(st, u)
      [] op = "hide"     -> hideAnnotation(st, u)
      [] op = "show"     -> showAnnotation(st, u)

\* what changes the annotations of the group ends a save/load round trip
touchedSinceSave == roundTrip' = "none"

\* initialize(toolGroupId) after `await cornerstoneService.initialize()`
\* (111-211): ok, the service initialised; supported, the engine's annotation
\* manager has addEventListener.  Each call registers its own four listeners.
AnnInitialize(ok, supported) ==
    /\ listeners < MaxListeners
    /\ listeners' = IF ok /\ supported THEN listeners + 1 ELSE listeners
    /\ UNCHANGED <<ann, annEngine, lastHow, annRecords, saving, loading, roundTrip,
                   loadedAfterFailure,
                   loadCaught>>
    /\ UNCHANGED exceptAnn

\* the user draws annotation u with a tool: the engine holds it and signals
\* ANNOTATION_ADDED to every listener
Draw(u) ==
    /\ u \notin annEngine
    /\ annEngine' = annEngine \cup {u}
    /\ ann' = IF listeners > 0 THEN onAnnotationAdded(ann, u) ELSE ann
    /\ touchedSinceSave
    /\ UNCHANGED <<listeners, lastHow, annRecords, saving, loading, loadedAfterFailure,
                   loadCaught>>
    /\ UNCHANGED exceptAnn

\* one of select, deselect, lock, unlock, hide, show on annotation u;
\* engineOk, the engine call succeeds
Operate(op, u, engineOk) ==
    /\ ann' = operate(op, ann, u)
    /\ lastHow' = forward(engineOk)
    /\ touchedSinceSave
    /\ UNCHANGED <<annEngine, listeners, annRecords, saving, loading, loadedAfterFailure,
                   loadCaught>>
    /\ UNCHANGED exceptAnn

\* a caller sets properties of the metadata of annotation u
SetMetadata(u, m) ==
    /\ ann' = setAnnotationMetadata(ann, u, m)
    /\ touchedSinceSave
    /\ UNCHANGED <<annEngine, listeners, lastHow, annRecords, saving, loading, loadedAfterFailure,
                   loadCaught>>
    /\ UNCHANGED exceptAnn

\* addAnnotationToGroup(toolGroupId, u, groupId)
Group(u, groupId) ==
    /\ ann' = addAnnotationToGroup(ann, u, groupId)
    /\ touchedSinceSave
    /\ UNCHANGED <<annEngine, listeners, lastHow, annRecords, saving, loading, loadedAfterFailure,
                   loadCaught>>
    /\ UNCHANGED exceptAnn

\* removeAnnotationFromGroup(toolGroupId, u, groupId), or without a groupId
\* when groupId is "none"
Ungroup(u, groupId) ==
    /\ ann' = removeAnnotationFromGroup(ann, u, groupId)
    /\ touchedSinceSave
    /\ UNCHANGED <<annEngine, listeners, lastHow, annRecords, saving, loading, loadedAfterFailure,
                   loadCaught>>
    /\ UNCHANGED exceptAnn

\* deleteAnnotation(toolGroupId, u) -- 619-642; a removal in the engine
\* signals ANNOTATION_REMOVED to every listener
Delete(u, engineOk) ==
    /\ annEngine' = IF engineOk THEN annEngine \ {u} ELSE annEngine
    /\ ann' = IF engineOk /\ u \in annEngine /\ listeners > 0
              THEN onAnnotationRemoved(deleteAnnotation(ann, u), u)
              ELSE deleteAnnotation(ann, u)
    /\ touchedSinceSave
    /\ UNCHANGED <<listeners, lastHow, annRecords, saving, loading, loadedAfterFailure,
                   loadCaught>>
    /\ UNCHANGED exceptAnn

\* the engine removes annotation u (the user erases it with a tool) and
\* signals ANNOTATION_REMOVED to every listener (182-202)
Removed(u) ==
    /\ u \in annEngine
    /\ annEngine' = annEngine \ {u}
    /\ ann' = IF listeners > 0 THEN onAnnotationRemoved(ann, u) ELSE ann
    /\ touchedSinceSave
    /\ UNCHANGED <<listeners, lastHow, annRecords, saving, loading, loadedAfterFailure,
                   loadCaught>>
    /\ UNCHANGED exceptAnn

\* A record of the annotations API for the study has a uid, the uid of the
\* annotation its data is the JSON text of; corrupt, JSON.parse rejects the
\* data; groupId, the groupId property of the record.
\* The record saveAnnotations creates for an annotation (666-674): studyId,
\* userId, type, data = JSON.stringify(anno), aiAnalysis; no groupId
annotationData(u) == [uid |-> u, corrupt |-> FALSE, groupId |-> "none"]

\* getAnnotations(toolGroupId) (214-326) as a list, in the order a, b
getAnnotations(engine) ==
    (IF "a" \in engine THEN <<"a">> ELSE <<>>) \o
    (IF "b" \in engine THEN <<"b">> ELSE <<>>)

\* the uids of the records whose data can be parsed
recreated(recs) == {recs[i].uid : i \in {j \in DOMAIN recs : ~recs[j].corrupt}}

\* 694-697: selected, lockedAnnotations, hiddenAnnotations and metadata are
\* cleared; annotationGroups is not
clearTracking(st) ==
    [st EXCEPT !.selected = {}, !.lockedAnnotations = {},
               !.hiddenAnnotations = {},
               !.metadata = [u \in Uids |-> NoMetadata]]

\* clearAllAnnotations (744-772) removing the annotations us from the engine:
\* each removal signals ANNOTATION_REMOVED to the listeners
RECURSIVE clearAllAnnotations(_, _)
clearAllAnnotations(st, us) ==
    IF us = {} THEN st
    ELSE LET u == CHOOSE x \in us : TRUE
         IN clearAllAnnotations(onAnnotationRemoved(st, u), us \ {u})

\* variant of the catch of one record: the loop ends at the failure
afterFailure_Abort(recs) == <<>>

\* the catch of one record (734-736) logs; the loop goes on with the rest
afterFailure(recs) == Tail(recs)

\* the body of the loop for a record that parses (705-733): acc holds the
\* local state st, the engine's uids, whether a record failed before and the
\* uids reconstructed after a failure
loadRecord(acc, rec, addSupported) ==
    [st |-> [(IF rec.groupId \in AnnotationGroupIds
              THEN addAnnotationToGroup(acc.st, rec.uid, rec.groupId) ELSE acc.st)
             EXCEPT !.metadata[rec.uid] =
                        [has |-> TRUE, groupId |-> "none",
                         isLocked |-> "false", isVisible |-> "true"]],
     engine |-> IF addSupported THEN acc.engine \cup {rec.uid} ELSE acc.engine,
     failed |-> acc.failed,
     after |-> IF acc.failed THEN acc.after \cup {rec.uid} ELSE acc.after]

\* the loop of 703-737 over the fetched records
RECURSIVE loadEach(_, _, _)
loadEach(acc, recs, addSupported) ==
    IF recs = <<>> THEN acc
    ELSE IF Head(recs).corrupt
         THEN loadEach([acc EXCEPT !.failed = TRUE], afterFailure(recs),
                       addSupported)
         ELSE loadEach(loadRecord(acc, Head(recs), addSupported), Tail(recs),
                       addSupported)

\* another client of the API creates a record for the study; like the
\* records of saveAnnotations it has no groupId
ForeignRecord(u, corrupt) ==
    /\ Len(annRecords) + Len(saving) < MaxRecords
    /\ annRecords' = Append(annRecords,
                            [uid |-> u, corrupt |-> corrupt, groupId |-> "none"])
    /\ UNCHANGED <<ann, annEngine, listeners, lastHow, saving, loading, roundTrip,
                   loadedAfterFailure,
                   loadCaught>>
    /\ UNCHANGED exceptAnn

\* saveAnnotations(toolGroupId, studyId, userId) up to its first await
\* (645-678): the annotations of the engine are listed once
SaveStart ==
    /\ saving = <<>>
    /\ Len(annRecords) + Cardinality(annEngine) <= MaxRecords
    /\ saving' = getAnnotations(annEngine)
    /\ roundTrip' = IF roundTrip \in {"saved", "resaved"}
                    THEN (IF annEngine = {} THEN "resaved" ELSE "resaving")
                    ELSE (IF annEngine = {} THEN "saved" ELSE "saving")
    /\ UNCHANGED <<ann, annEngine, listeners, lastHow, annRecords, loading,
                   loadedAfterFailure,
                   loadCaught>>
    /\ UNCHANGED exceptAnn

\* `await annotationsApi.create(annotationData)` settles (676-682) and the
\* loop goes on; ok, the API stored the record
SaveCreate(ok) ==
    /\ saving # <<>>
    /\ annRecords' = IF ok THEN Append(annRecords, annotationData(Head(saving)))
                     ELSE annRecords
    /\ saving' = Tail(saving)
    /\ roundTrip' = IF ~ok \/ roundTrip \notin {"saving", "resaving"} THEN "none"
                    ELSE IF Tail(saving) # <<>> THEN roundTrip
                    ELSE IF roundTrip = "saving" THEN "saved" ELSE "resaved"
    /\ UNCHANGED <<ann, annEngine, listeners, lastHow, loading, loadedAfterFailure,
                   loadCaught>>
    /\ UNCHANGED exceptAnn

\* variant of the failing fetch: the tracking is cleared before the fetch
fetchFailed_ClearedFirst(st, engine) ==
    [st |-> clearTracking(st), engine |-> engine, how |-> "returned"]

\* the fetch fails (691): nothing of 693-737 runs, the catch of 738-740 logs
\* and the call returns
fetchFailed(st, engine) == [st |-> st, engine |-> engine, how |-> "returned"]

\* loadAnnotations(toolGroupId, studyId) up to its await (686-691)
LoadAnnotations ==
    /\ ~loading
    /\ loading' = TRUE
    /\ loadCaught' = FALSE
    /\ UNCHANGED <<ann, annEngine, listeners, lastHow, annRecords, saving,
                   roundTrip, loadedAfterFailure>>
    /\ UNCHANGED exceptAnn

\* loadAnnotations after `await annotationsApi.getByStudyId(studyId)`
\* (691-741): ok, the fetch succeeded; clearOk, the engine lists and removes
\* its annotations; addSupported, the engine takes an annotation from data
LoadFetched(ok, clearOk, addSupported) ==
    /\ loading
    /\ loading' = FALSE
    /\ IF ok
       THEN LET removed == IF clearOk /\ listeners > 0 THEN annEngine ELSE {}
                acc == loadEach(
                         [st |-> clearAllAnnotations(clearTracking(ann), removed),
                          engine |-> IF clearOk THEN {} ELSE annEngine,
                          failed |-> FALSE, after |-> {}],
                         annRecords, addSupported)
            IN /\ ann' = acc.st
               /\ annEngine' = acc.engine
               /\ loadedAfterFailure' = acc.after
               /\ roundTrip' = "none"
               /\ lastHow' = "returned"
               /\ loadCaught' = FALSE
       ELSE LET end == fetchFailed(ann, annEngine)
            IN /\ ann' = end.st
               /\ annEngine' = end.engine
               /\ lastHow' = end.how
               /\ loadCaught' = TRUE
               /\ UNCHANGED <<loadedAfterFailure, roundTrip>>
    /\ UNCHANGED <<listeners, annRecords, saving>>
    /\ UNCHANGED exceptAnn

----------------------------------------------------------------------------
(* Classifying uploaded files -- cornerstoneService.ts:229-433, 623-687     *)

\* A file: ext, what `file.name.split('.').pop()?.toLowerCase()` gives
\* ("other": none of the extensions the code names); type, the declared
\* content type; size in bytes; magic, the text of bytes 128..131 ("none"
\* when the file is shorter); parses, dicomParser accepts the file;
\* readFails, the FileReader reports an error.
Exts == {"dcm", "nii", "gz", "png", "jpg", "other"}
Types == {"application/dicom", "image/png", "image/jpeg", ""}
Sizes == {50, 131, 132, 200}

Files ==
    {f \in [ext : Exts, type : Types, size : Sizes, magic : {"DICM", "XXXX", "none"},
            parses : BOOLEAN, readFails : BOOLEAN] :
        (f.magic = "none") = (f.size < 132)}

NoFile == [ext |-> "other", type |-> "", size |-> 50, magic |-> "none",
           parses |-> FALSE, readFails |-> FALSE]

\* verifyDicomFormat(file) -- 399-433
verifyDicomFormat(f) ==
    IF f.size < 132 THEN FALSE
    ELSE IF f.readFails THEN FALSE
    ELSE IF f.magic = "DICM" THEN TRUE
    ELSE f.parses

\* determineFileFormat(file).format -- 364-397
determineFileFormat(f) ==
    IF (f.ext = "dcm" \/ f.type = "application/dicom") /\ verifyDicomFormat(f)
    THEN "dicom"
    ELSE IF f.ext \in {"nii", "gz"} THEN "nifti"
    ELSE IF f.ext = "png" \/ f.type = "image/png" THEN "png"
    ELSE IF f.ext = "jpg" \/ f.type = "image/jpeg" THEN "jpg"
    ELSE "unknown"

\* a caller has another file
NewFile(f) ==
    /\ file' = f
    /\ formatInfo' = "none"
    /\ UNCHANGED <<files, imageSeries, damaged>>
    /\ UNCHANGED exceptCls

\* determineFileFormat(file)
DetermineFileFormat ==
    /\ formatInfo = "none"
    /\ formatInfo' = determineFileFormat(file)
    /\ UNCHANGED <<file, files, imageSeries, damaged>>
    /\ UNCHANGED exceptCls

\* The file names of the model, in ascending localeCompare order; a file of
\* an upload is named by its name, and an image id by the name of the file
\* whose object URL it holds.
FileNames == <<"a.dcm", "b.png", "c.dcm", "DICOMDIR", "e">>

\* the position of a name in the localeCompare order
rank(n) == CHOOSE i \in DOMAIN FileNames : FileNames[i] = n

\* the uploads: up to MaxFiles files with different names, in any order
Uploads ==
    UNION {{fs \in [1..n -> {FileNames[i] : i \in DOMAIN FileNames}] :
               \A i \in 1..n, j \in 1..n : fs[i] = fs[j] => i = j} : n \in 0..MaxFiles}

\* `name.toUpperCase() === 'DICOMDIR' || name.toUpperCase().endsWith('.DICOMDIR')`
isDicomdir(n) == n = "DICOMDIR"
\* `name.toLowerCase().endsWith('.dcm') || ...includes('.dcm') || type === 'application/dicom'`
isDicomFile(n) == n \in {"a.dcm", "c.dcm"}
\* `type.startsWith('image/') || name ends with .png, .jpg or .jpeg`
isImageFile(n) == n = "b.png"

\* the names of the files of an upload
names(fs) == {fs[i] : i \in DOMAIN fs}

\* the file of a name: its content is what its extension says, unless it is
\* one of the damaged files bad (no magic number, not parsed by dicomParser)
fileOf(n, bad) ==
    [ext |-> IF isDicomFile(n) THEN "dcm" ELSE IF isImageFile(n) THEN "png" ELSE "other",
     type |-> IF isImageFile(n) THEN "image/png" ELSE "",
     size |-> 200,
     magic |-> IF (isDicomFile(n) \/ isDicomdir(n)) /\ n \notin bad THEN "DICM" ELSE "XXXX",
     parses |-> (isDicomFile(n) \/ isDicomdir(n)) /\ n \notin bad, readFails |-> FALSE]

\* `fs.sort((a, b) => a.name.localeCompare(b.name))`: insertion into the
\* sorted sequence, for each element in turn
RECURSIVE insert(_, _)
insert(sorted, n) ==
    IF sorted = <<>> THEN <<n>>
    ELSE IF rank(n) < rank(Head(sorted)) THEN <<n>> \o sorted
    ELSE <<Head(sorted)>> \o insert(Tail(sorted), n)

RECURSIVE sort(_)
sort(fs) == IF fs = <<>> THEN <<>> ELSE insert(sort(Tail(fs)), Head(fs))

\* files.find(...) || the first element for which the test holds
dicomdirOf(fs) ==
    LET found == SelectSeq(fs, isDicomdir) IN IF found = <<>> THEN "none" ELSE Head(found)

notDicomdir(n) == ~isDicomdir(n)

\* `[dicomdirFile, ...files.filter(f => f !== dicomdirFile)]` (249, 251)
dicomdirOrder(fs) == <<dicomdirOf(fs)>> \o SelectSeq(fs, notDicomdir)

\* createImageIdsFromFiles(files) -- 623-687: the ids, each named by its file
createImageIdsFromFiles(fs) ==
    IF fs = <<>> THEN <<>>
    ELSE IF dicomdirOf(fs) # "none" THEN <<dicomdirOf(fs)>> \o SelectSeq(fs, notDicomdir)
    ELSE IF SelectSeq(fs, isDicomFile) # <<>> THEN sort(SelectSeq(fs, isDicomFile))
    ELSE IF SelectSeq(fs, isImageFile) # <<>> THEN SelectSeq(fs, isImageFile)
    ELSE fs

\* the images of 288-317: file i with id i, files without an id are left
\* out, then the files of unknown format
RECURSIVE pairUp(_, _, _)
pairUp(fs, ids, bad) ==
    IF fs = <<>> \/ ids = <<>> THEN <<>>
    ELSE (IF determineFileFormat(fileOf(Head(fs), bad)) = "unknown" THEN <<>>
          ELSE <<[file |-> Head(fs), imageId |-> Head(ids)]>>)
         \o pairUp(Tail(fs), Tail(ids), bad)

\* the images of the DICOMDIR branch (251-266)
RECURSIVE pairAll(_, _)
pairAll(fs, ids) ==
    IF fs = <<>> \/ ids = <<>> THEN <<>>
    ELSE <<[file |-> Head(fs), imageId |-> Head(ids)]>> \o pairAll(Tail(fs), Tail(ids))

Series(images) == [made |-> TRUE, thrown |-> FALSE, images |-> images]
Thrown == [made |-> TRUE, thrown |-> TRUE, images |-> <<>>]
NoImageSeries == [made |-> FALSE, thrown |-> FALSE, images |-> <<>>]

\* processImageSeries(files) -- 229-362: the images of the series
processedImages(fs, bad) ==
    IF fs = <<>> THEN Thrown
    ELSE IF dicomdirOf(fs) # "none"
         THEN Series(pairAll(dicomdirOrder(fs), createImageIdsFromFiles(dicomdirOrder(fs))))
         ELSE LET images == pairUp(sort(fs), createImageIdsFromFiles(sort(fs)), bad)
              IN IF images = <<>> THEN Thrown ELSE Series(images)

\* a caller has another upload; the content of the files bad is damaged
NewUpload(fs, bad) ==
    /\ files' = fs
    /\ damaged' = bad
    /\ imageSeries' = NoImageSeries
    /\ UNCHANGED <<file, formatInfo>>
    /\ UNCHANGED exceptCls

\* processImageSeries(files)
ProcessImageSeries ==
    /\ ~imageSeries.made
    /\ imageSeries' = processedImages(files, damaged)
    /\ UNCHANGED <<file, formatInfo, files, damaged>>
    /\ UNCHANGED exceptCls

----------------------------------------------------------------------------
(* The service of unnamed/part_005: CornerstoneService.initialize, 44-134   *)

Services == {"cornerstoneService.ts", "part_005", "part_006"}

\* a call of initialize(); syncThrow, cornerstone3D.init() of line 73 throws
\* before it returns a promise, so that catch and finally (125-132) run
\* before the promise of the body is stored (line 69)
Initialize5(syncThrow) ==
    /\ Len(callers5) < MaxCalls
    /\ IF init5.isInitialized
       THEN \* lines 45-47
            /\ callers5' = Append(callers5, [kind |-> "ready", att |-> 0, result |-> "ok"])
            /\ UNCHANGED <<init5, runs5>>
       ELSE IF init5.initializationPromise # 0
       THEN \* lines 49-51: the stored promise, whatever its state
            /\ callers5' = Append(callers5,
                   [kind |-> "joined", att |-> init5.initializationPromise,
                    result |-> runs5[init5.initializationPromise]])
            /\ UNCHANGED <<init5, runs5>>
       ELSE IF init5.initializationLock
       THEN \* lines 53-64: a promise that polls isInitialized every 100 ms;
            \* the lock is never seen set without a stored promise
            /\ callers5' = Append(callers5, [kind |-> "polling", att |-> 0, result |-> "pending"])
            /\ UNCHANGED <<init5, runs5>>
       ELSE \* lines 66-133
            /\ runs5' = Append(runs5, IF syncThrow THEN "err" ELSE "pending")
            /\ init5' = [init5 EXCEPT !.initializationLock = ~syncThrow,
                                      !.initializationPromise = Len(runs5) + 1]
            /\ callers5' = Append(callers5,
                   [kind |-> "started", att |-> Len(runs5) + 1,
                    result |-> IF syncThrow THEN "err" ELSE "pending"])
    /\ UNCHANGED service
    /\ UNCHANGED exceptS5

\* the body of run a ends (122-132); the callers that hold its promise see
\* the outcome
Settle5(a, r) ==
    /\ a \in 1..Len(runs5)
    /\ runs5[a] = "pending"
    /\ runs5' = [runs5 EXCEPT ![a] = r]
    /\ init5' = [isInitialized |-> IF r = "ok" THEN TRUE ELSE FALSE,
                 initializationPromise |-> 0, initializationLock |-> FALSE]
    /\ callers5' = [i \in 1..Len(callers5) |->
           IF callers5[i].att = a /\ callers5[i].result = "pending"
           THEN [callers5[i] EXCEPT !.result = r] ELSE callers5[i]]
    /\ UNCHANGED service
    /\ UNCHANGED exceptS5

----------------------------------------------------------------------------
(* The rendering engine library and cornerstone3DInit.ts helpers *)

EngineObjs == 1..Len(engines)

\* cornerstone3D.getRenderingEngine(id): the registered (not destroyed) engine
csGetRenderingEngine(id) ==
    IF \E e \in EngineObjs : engines[e].name = id /\ engines[e].state = "live"
    THEN CHOOSE e \in EngineObjs : engines[e].name = id /\ engines[e].state = "live"
    ELSE 0

\* RenderingEngine.destroy(): the engine leaves the library's registry and
\* its viewports are gone; `why` records who destroyed it
destroyEngine(engs, e, why) ==
    IF e = 0 THEN engs ELSE [engs EXCEPT ![e].state = why]

dropViewports(vps, e) == {v \in vps : v.engine # e}

\* createRenderingEngine(id) -- cornerstone3DInit.ts:697-706
createRenderingEngine(id) ==
    Append(destroyEngine(engines, csGetRenderingEngine(id), "replaced"),
           [name |-> id, state |-> "live"])

\* cleanupCornerstone3D(renderingEngineId, toolGroupIds)
\*   -- cornerstone3DInit.ts:259-294 (and 1243-1268)
cleanupToolGroups(tgs, toolGroupIds) == {g \in tgs : g.id \notin toolGroupIds}

cleanupEngines(id) == destroyEngine(engines, csGetRenderingEngine(id), "released")

\* createToolGroup(toolGroupId, viewportIds, renderingEngineId)
\*   -- cornerstone3DInit.ts:745-780: an existing group of that id is destroyed
\* first.  Called for the viewport of component p.
CreateToolGroup(p) ==
    /\ mounted[p]
    /\ \E v \in viewports : v.viewport = p
                            /\ v.engine = csGetRenderingEngine(engineId[p])
    /\ toolGroups' = {g \in toolGroups : g.id # p}
                     \cup {[id |-> p, viewport |-> p, engineId |-> engineId[p]]}
    /\ UNCHANGED <<initVars, renderingEngines, engines, viewports, compVars, histVars>>
    /\ UNCHANGED <<altVars, extVars>>

----------------------------------------------------------------------------
(* CornerstoneService rendering-engine registry *)

NoEntry == [engine |-> 0, refCount |-> 0]

\* variant of the decision of line 126: destroy while one holder remains
shouldDestroy_AtOne(refCount, force) == refCount <= 1 \/ force

\* the decision taken at cornerstoneService.ts:126
shouldDestroy(refCount, force) == refCount <= 0 \/ force

\* CornerstoneService.releaseRenderingEngine -- cornerstoneService.ts:117-131
Release(id, force) ==
    /\ IF renderingEngines[id].engine = 0
       THEN UNCHANGED <<renderingEngines, engines, viewports, toolGroups, overlap>>
       ELSE LET rc == renderingEngines[id].refCount - 1 IN
            /\ overlap' = {p \in overlap : engineId[p] # id}
            /\ IF shouldDestroy(rc, force)
               THEN /\ toolGroups' = cleanupToolGroups(toolGroups, {})
                    /\ engines' = cleanupEngines(id)
                    /\ viewports' = dropViewports(viewports, csGetRenderingEngine(id))
                    /\ renderingEngines' = [renderingEngines EXCEPT ![id] = NoEntry]
               ELSE /\ renderingEngines' = [renderingEngines EXCEPT ![id].refCount = rc]
                    /\ UNCHANGED <<engines, viewports, toolGroups>>
    /\ UNCHANGED <<initVars, compVars, staleOps>>
    /\ UNCHANGED <<altVars, extVars>>

----------------------------------------------------------------------------
(* What a release call gives its caller when destroying fails --            *)
(* cornerstoneService.ts:117-131 with cornerstone3DInit.ts:259-294, and     *)
(* unnamed/part_005:165-205                                                 *)

\* A release call: registered, the id has a registry entry; refCount, its
\* count (cornerstoneService.ts only); force, the argument; lookupFails, the
\* engine lookup of part_005:167 throws; destroyFails, engine.destroy() throws.
ReleaseCalls == [registered : BOOLEAN, refCount : 1..MaxRefCount, force : BOOLEAN,
                 lookupFails : BOOLEAN, destroyFails : BOOLEAN]

NoReleaseCall == [registered |-> FALSE, refCount |-> 1, force |-> FALSE,
                  lookupFails |-> FALSE, destroyFails |-> FALSE]

\* what a call did: how it ended for the caller, whether destroy() was
\* called and failed, whether the registry entry was deleted
Ended(how, failed, deleted) ==
    [made |-> TRUE, how |-> how, destroyFailed |-> failed, deleted |-> deleted]

NotEnded == [made |-> FALSE, how |-> "none", destroyFailed |-> FALSE, deleted |-> FALSE]

\* cleanupCornerstone3D(id, []) -- cornerstone3DInit.ts:259-294: the catch of
\* lines 290-292 logs whatever renderingEngine.destroy() throws
cleanupCornerstone3D(c) == Ended("returned", c.destroyFails, TRUE)

\* releaseRenderingEngine(id, force) -- cornerstoneService.ts:117-131
releaseRenderingEngine(c) ==
    IF ~c.registered THEN Ended("returned", FALSE, FALSE)
    ELSE IF shouldDestroy(c.refCount - 1, c.force) THEN cleanupCornerstone3D(c)
    ELSE Ended("returned", FALSE, FALSE)

\* releaseRenderingEngine(id, force) -- unnamed/part_005:165-205: the destroy
\* has its own try/catch (187-193); the outer catch (199-204) rethrows unless force
releaseRenderingEngine5(c) ==
    IF c.lookupFails
    THEN Ended(IF c.force THEN "returned" ELSE "raised", FALSE, FALSE)
    ELSE IF c.registered THEN Ended("returned", c.destroyFails, TRUE)
    ELSE Ended("returned", FALSE, FALSE)

Releasers == {"cornerstoneService.ts", "part_005"}

release(r, c) ==
    CASE r = "cornerstoneService.ts" -> releaseRenderingEngine(c)
      [] r = "part_005"              -> releaseRenderingEngine5(c)

NoneEnded == [r \in Releasers |-> NotEnded]

\* a caller prepares a release call
NewReleaseCall(c) ==
    /\ releaseCall' = c
    /\ releaseEnd' = NoneEnded
    /\ UNCHANGED exceptRel

\* the call is made on implementation r
ReleaseEnds(r) ==
    /\ ~releaseEnd[r].made
    /\ releaseEnd' = [releaseEnd EXCEPT ![r] = release(r, releaseCall)]
    /\ UNCHANGED releaseCall
    /\ UNCHANGED exceptRel

----------------------------------------------------------------------------
(* DicomViewer3D component -- DicomViewer3D.tsx:108-770 *)

NoWait == [via |-> "none", kind |-> "none", att |-> 0, result |-> "none"]

\* isMounted ref: created true (line 139) and never assigned afterwards
isMounted(p) == TRUE

\* an operation issued on engine e is recorded when release had destroyed e
noteOp(e, op) ==
    IF e # 0 /\ engines[e].state = "released" THEN staleOps \cup {op} ELSE staleOps

\* the library rejects operations on a destroyed engine
usable(e) == e # 0 /\ engines[e].state = "live"

\* setupViewport returns: its locals are gone
Finish(p) ==
    /\ pc' = [pc EXCEPT ![p] = "idle"]
    /\ held' = [held EXCEPT ![p] = 0]
    /\ isVolumeData' = [isVolumeData EXCEPT ![p] = FALSE]

\* React mounts an instance; its refs are fresh
Mount(p, id) ==
    /\ ~mounted[p]
    /\ pc[p] = "idle"
    /\ mounted' = [mounted EXCEPT ![p] = TRUE]
    /\ isInitialized' = [isInitialized EXCEPT ![p] = FALSE]
    /\ engineId' = [engineId EXCEPT ![p] = id]
    /\ UNCHANGED <<initVars, engVars, localVars, histVars>>
    /\ UNCHANGED <<altVars, extVars>>

\* React unmounts the instance: the effect cleanups of the component only
\* clear the init timer (line 341) and remove the resize listener (line 241)
Unmount(p) ==
    /\ mounted[p]
    /\ mounted' = [mounted EXCEPT ![p] = FALSE]
    /\ UNCHANGED <<initVars, engVars, isInitialized, engineId, localVars, histVars>>
    /\ UNCHANGED <<altVars, extVars>>

\* the initialization effect, lines 303-343, up to `await initialize()`
InitEffect(p) ==
    /\ mounted[p] /\ isMounted(p) /\ ~isInitialized[p]
    /\ pc[p] = "idle"
    /\ CompInitialize
    /\ awaiting' = [awaiting EXCEPT ![p] = InitRec(SvcState, "initialize")]
    /\ pc' = [pc EXCEPT ![p] = "init"]
    /\ UNCHANGED <<csInitialized, calls, engVars, refVars, held, isVolumeData,
                   histVars>>
    /\ UNCHANGED <<altVars, extVars>>

\* ... and after it, lines 321-330
InitEffectDone(p) ==
    /\ pc[p] = "init"
    /\ awaiting[p].result \in {"ok", "err"}
    /\ pc' = [pc EXCEPT ![p] = "idle"]
    /\ awaiting' = [awaiting EXCEPT ![p] = NoWait]
    /\ isInitialized' = [isInitialized EXCEPT ![p] = (awaiting[p].result = "ok")]
    /\ UNCHANGED <<initVars, engVars, mounted, engineId, held, isVolumeData, histVars>>
    /\ UNCHANGED <<altVars, extVars>>

\* setupViewport, lines 410-435: up to the await of validateImages, whose
\* first statement is `await this.initialize()` (cornerstoneService.ts:149)
SetupStart(p) ==
    /\ mounted[p] /\ isMounted(p) /\ isInitialized[p]
    /\ pc[p] = "idle"
    /\ CompInitialize
    /\ awaiting' = [awaiting EXCEPT ![p] = InitRec(SvcState, "initialize")]
    /\ pc' = [pc EXCEPT ![p] = "validate"]
    /\ UNCHANGED <<csInitialized, calls, engVars, refVars, held, isVolumeData,
                   histVars>>
    /\ UNCHANGED <<altVars, extVars>>

\* cleanupViewport, lines 161-209: the component's tool group and element
\* are removed from the registered engine of its id, if there is one
cleanupViewportGroups(p) ==
    IF csGetRenderingEngine(engineId[p]) = 0 THEN toolGroups
    ELSE {g \in toolGroups : g.id # p}

cleanupViewportElements(p) ==
    {v \in viewports : ~(v.engine = csGetRenderingEngine(engineId[p])
                          /\ v.viewport = p)}

\* history: the components racing with the getRenderingEngine call p issues
racing(p) ==
    LET others == {q \in Viewers \ {p} : /\ engineId[q] = engineId[p]
                                         /\ pc[q] \in {"acqInit", "acqCreate"}}
    IN IF renderingEngines[engineId[p]].engine = 0 /\ others # {}
       THEN others \cup {p} ELSE {}

\* setupViewport, lines 436-460: validation result, volume check,
\* cleanupViewport, and the call of getRenderingEngine up to its
\* `await this.initialize()` (cornerstoneService.ts:89)
SetupValidated(p, valid, vol) ==
    /\ pc[p] = "validate"
    /\ awaiting[p].result \in {"ok", "err"}
    /\ IF awaiting[p].result = "err" \/ ~valid
       THEN /\ Finish(p)
            /\ awaiting' = [awaiting EXCEPT ![p] = NoWait]
            /\ UNCHANGED <<initVars, engVars, overlap>>
       ELSE /\ isVolumeData' = [isVolumeData EXCEPT ![p] = vol]
            /\ overlap' = (overlap \ {p}) \cup racing(p)
            /\ toolGroups' = cleanupViewportGroups(p)
            /\ viewports' = cleanupViewportElements(p)
            /\ CompInitialize
            /\ awaiting' = [awaiting EXCEPT ![p] = InitRec(SvcState, "initialize")]
            /\ pc' = [pc EXCEPT ![p] = "acqInit"]
            /\ UNCHANGED <<csInitialized, calls, renderingEngines, engines, held>>
    /\ UNCHANGED <<refVars, staleOps>>
    /\ UNCHANGED <<altVars, extVars>>

\* the registry entries written by getRenderingEngine
newEntry(e) == [engine |-> e, refCount |-> 1]

\* variant of lines 96-97 that hands the engine out without counting the holder
reuseEntry_NoCount(entry) == entry

reuseEntry(entry) == [entry EXCEPT !.refCount = @ + 1]

\* CornerstoneService.getRenderingEngine after `await this.initialize()`
\*   -- cornerstoneService.ts:90-101
AcqResume(p) ==
    /\ pc[p] = "acqInit"
    /\ awaiting[p].result \in {"ok", "err"}
    /\ awaiting' = [awaiting EXCEPT ![p] = NoWait]
    /\ IF awaiting[p].result = "err"
       THEN \* line 92 throws; setupViewport's catch, lines 523-528
            /\ Finish(p)
            /\ overlap' = overlap \ {p}
            /\ UNCHANGED <<renderingEngines, engines, viewports>>
       ELSE IF renderingEngines[engineId[p]].engine # 0
       THEN \* lines 95-99
            /\ renderingEngines[engineId[p]].refCount < MaxRefCount
            /\ renderingEngines' = [renderingEngines EXCEPT
                   ![engineId[p]] = reuseEntry(renderingEngines[engineId[p]])]
            /\ held' = [held EXCEPT ![p] = renderingEngines[engineId[p]].engine]
            /\ pc' = [pc EXCEPT ![p] = "gotEngine"]
            /\ UNCHANGED <<engines, viewports, isVolumeData, overlap>>
       ELSE \* line 101: createRenderingEngine(id), then the await suspends
            /\ Len(engines) < MaxEngines
            /\ engines' = createRenderingEngine(engineId[p])
            /\ viewports' = dropViewports(viewports, csGetRenderingEngine(engineId[p]))
            /\ held' = [held EXCEPT ![p] = Len(engines) + 1]
            /\ pc' = [pc EXCEPT ![p] = "acqCreate"]
            /\ UNCHANGED <<renderingEngines, isVolumeData, overlap>>
    /\ UNCHANGED <<initVars, toolGroups, refVars, staleOps>>
    /\ UNCHANGED <<altVars, extVars>>

\* CornerstoneService.getRenderingEngine after `await createRenderingEngine(id)`
\*   -- cornerstoneService.ts:102-109
AcqStore(p) ==
    /\ pc[p] = "acqCreate"
    /\ renderingEngines' = [renderingEngines EXCEPT ![engineId[p]] = newEntry(held[p])]
    /\ pc' = [pc EXCEPT ![p] = "gotEngine"]
    /\ UNCHANGED <<initVars, engines, viewports, toolGroups, refVars, awaiting, held,
                   isVolumeData, histVars>>
    /\ UNCHANGED <<altVars, extVars>>

\* setupViewport, lines 465-493/516: the element is enabled on the engine
\* the call returned, then the first load step is started
SetupEnable(p) ==
    /\ pc[p] = "gotEngine"
    /\ staleOps' = noteOp(held[p], "enable")
    /\ overlap' = overlap \ {p}
    /\ IF ~usable(held[p])
       THEN /\ Finish(p)
            /\ UNCHANGED viewports
       ELSE /\ viewports' = viewports \cup {[engine |-> held[p], viewport |-> p]}
            /\ pc' = [pc EXCEPT ![p] = IF isVolumeData[p] THEN "volCreate"
                                                          ELSE "stackLoad"]
            /\ UNCHANGED <<held, isVolumeData>>
    /\ UNCHANGED <<initVars, renderingEngines, engines, toolGroups, refVars, awaiting>>
    /\ UNCHANGED <<altVars, extVars>>

\* one awaited step of the volume load, lines 488-503; a rejection is caught
\* at line 509 and the same identifiers are loaded as a stack (line 513)
VolumeStep(p, ok) ==
    /\ pc[p] \in {"volCreate", "volSet"}
    /\ staleOps' = noteOp(held[p], "load")
    /\ IF ~usable(held[p])
       THEN Finish(p)
       ELSE /\ pc' = [pc EXCEPT ![p] =
                        IF ~ok THEN "stackLoad"
                        ELSE IF pc[p] = "volCreate" THEN "volSet" ELSE "volLoad"]
            /\ UNCHANGED <<held, isVolumeData>>
    /\ UNCHANGED <<initVars, engVars, refVars, awaiting, overlap>>
    /\ UNCHANGED <<altVars, extVars>>

\* after `await volume.load()`: viewport.render() and the report, lines 504-522
VolumeLoaded(p, ok) ==
    /\ pc[p] = "volLoad"
    /\ staleOps' = noteOp(held[p], "render")
    /\ IF ~usable(held[p]) THEN Finish(p)
       ELSE IF ok THEN Finish(p)
       ELSE /\ pc' = [pc EXCEPT ![p] = "stackLoad"]
            /\ UNCHANGED <<held, isVolumeData>>
    /\ UNCHANGED <<initVars, engVars, refVars, awaiting, overlap>>
    /\ UNCHANGED <<altVars, extVars>>

\* loadAsStack after `await viewport.setStack(imageIds)`, lines 532-537, and
\* the report onImageLoaded(true, !isVolumeData), lines 519-522
StackLoaded(p, ok) ==
    /\ pc[p] = "stackLoad"
    /\ staleOps' = noteOp(held[p], "render")
    /\ Finish(p)
    /\ UNCHANGED <<initVars, engVars, refVars, awaiting, overlap>>
    /\ UNCHANGED <<altVars, extVars>>

\* what setupViewport passes to onImageLoaded when its load did not throw,
\* lines 519-522: onImageLoaded(true, !isVolumeData)
loadReport(isVolume) == Report(TRUE, ~isVolume)

\* setupViewport is suspended in loadAsStack called from the catch of the
\* volume load (line 513): isVolumeData is set and a stack load is under way
FellBack(p) == pc[p] = "stackLoad" /\ isVolumeData[p]

----------------------------------------------------------------------------
\* the state after construction of everything but the series probed
InitProgram ==
    /\ initialized = FALSE
    /\ initializing = FALSE
    /\ initPromise = 0
    /\ initError = 0
    /\ retryCount = 0
    /\ csInitialized = FALSE
    /\ started = 0
    /\ pending = {}
    /\ trivial = {}
    /\ calls = <<>>
    /\ renderingEngines = [id \in EngineIds |-> NoEntry]
    /\ engines = <<>>
    /\ viewports = {}
    /\ toolGroups = {}
    /\ mounted = [p \in Viewers |-> FALSE]
    /\ isInitialized = [p \in Viewers |-> FALSE]
    /\ engineId = [p \in Viewers |-> "engA"]
    /\ pc = [p \in Viewers |-> "idle"]
    /\ awaiting = [p \in Viewers |-> NoWait]
    /\ held = [p \in Viewers |-> 0]
    /\ isVolumeData = [p \in Viewers |-> FALSE]
    /\ staleOps = {}
    /\ overlap = {}
    /\ initState = [isInitialized |-> FALSE, isInitializing |-> FALSE,
                    initPromise |-> 0, error |-> 0]
    /\ initialized6 = FALSE
    /\ initRuns = <<>>
    /\ initCallers = <<>>
    /\ runs = <<>>
    /\ v2mounted = TRUE
    /\ v2loading = FALSE
    /\ v2error = "none"
    /\ v2viewport = NoViewport
    /\ reports = [r \in RunIds |-> NoReport]
    /\ lateCommits = {}
    /\ adv = AdvInit
    /\ handles = <<>>
    /\ currentSeries = 0
    /\ madeSeries = 0
    /\ uploadsPending = 0
    /\ loadedImages = {}
    /\ loadsPending = {}
    /\ panelMounted = TRUE
    /\ discarded = {}
    /\ toolMode = [g \in GroupIds |-> NoGroup]
    /\ currentTool = "pan"
    /\ releaseEnd = NoneEnded
    /\ ann = NoAnnotations
    /\ annEngine = {}
    /\ listeners = 0
    /\ lastHow = "returned"
    /\ annRecords = <<>>
    /\ saving = <<>>
    /\ loading = FALSE
    /\ roundTrip = "none"
    /\ loadedAfterFailure = {}
    /\ loadCaught = FALSE
    /\ formatInfo = "none"
    /\ imageSeries = NoImageSeries
    /\ init5 = [isInitialized |-> FALSE, initializationPromise |-> 0,
                initializationLock |-> FALSE]
    /\ runs5 = <<>>
    /\ callers5 = <<>>

\* no series has been uploaded yet
Init ==
    /\ InitProgram
    /\ probe = NoSeries
    /\ verdict = NoVerdict
    /\ releaseCall = NoReleaseCall
    /\ service = "cornerstoneService.ts"
    /\ file = NoFile
    /\ files = <<>>
    /\ damaged = {}

\* the decision functions are applied to every series
InitDecision ==
    /\ InitProgram
    /\ probe \in Probes
    /\ verdict = NoVerdict
    /\ releaseCall = NoReleaseCall
    /\ service = "cornerstoneService.ts"
    /\ file = NoFile
    /\ files = <<>>
    /\ damaged = {}

\* release is called with every argument on every registry state
InitRelease ==
    /\ InitProgram
    /\ probe = NoSeries
    /\ verdict = NoVerdict
    /\ releaseCall \in ReleaseCalls
    /\ service = "cornerstoneService.ts"
    /\ file = NoFile
    /\ files = <<>>
    /\ damaged = {}

\* determineFileFormat is asked about every file
InitFormat ==
    /\ InitProgram
    /\ probe = NoSeries
    /\ verdict = NoVerdict
    /\ releaseCall = NoReleaseCall
    /\ service = "cornerstoneService.ts"
    /\ file \in Files
    /\ files = <<>>
    /\ damaged = {}

\* processImageSeries is called with every upload
InitSeries ==
    /\ InitProgram
    /\ probe = NoSeries
    /\ verdict = NoVerdict
    /\ releaseCall = NoReleaseCall
    /\ service = "cornerstoneService.ts"
    /\ file = NoFile
    /\ files \in Uploads
    /\ damaged \in SUBSET names(files)

\* the build holds one of the implementations of the service
InitSettle ==
    /\ InitProgram
    /\ probe = NoSeries
    /\ verdict = NoVerdict
    /\ releaseCall = NoReleaseCall
    /\ service \in Services
    /\ file = NoFile
    /\ files = <<>>
    /\ damaged = {}

Next ==
    \/ \E u \in Uids : Removed(u)
    \/ \E u \in Uids, groupId \in AnnotationGroupIds \cup {"none"} : Ungroup(u, groupId)
    \/ \E u \in Uids, m \in Partials : SetMetadata(u, m)
    \/ \E syncThrow \in BOOLEAN : Initialize5(syncThrow)
    \/ \E a \in 1..Len(runs5), r \in {"ok", "err"} : Settle5(a, r)
    \/ \E fs \in Uploads : \E bad \in SUBSET names(fs) : NewUpload(fs, bad)
    \/ ProcessImageSeries
    \/ \E u \in Uids, corrupt \in BOOLEAN : ForeignRecord(u, corrupt)
    \/ SaveStart
    \/ \E ok \in BOOLEAN : SaveCreate(ok)
    \/ LoadAnnotations
    \/ \E ok \in BOOLEAN, clearOk \in BOOLEAN, addSupported \in BOOLEAN :
           LoadFetched(ok, clearOk, addSupported)
    \/ \E f \in Files : NewFile(f)
    \/ DetermineFileFormat
    \/ \E ok \in BOOLEAN, supported \in BOOLEAN : AnnInitialize(ok, supported)
    \/ \E u \in Uids : Draw(u)
    \/ \E op \in Operations, u \in Uids, engineOk \in BOOLEAN : Operate(op, u, engineOk)
    \/ \E u \in Uids : Group(u, "g")
    \/ \E u \in Uids, engineOk \in BOOLEAN : Delete(u, engineOk)
    \/ \E c \in ReleaseCalls : NewReleaseCall(c)
    \/ \E r \in Releasers : ReleaseEnds(r)
    \/ \E g \in GroupIds : CreateGroupTools(g)
    \/ \E g \in GroupIds, t \in GroupTools : SetToolActive(g, t)
    \/ \E g \in GroupIds, u \in UiTools, created \in BOOLEAN : UpdateTool(g, u, created)
    \/ UploadStart
    \/ \E ok \in BOOLEAN : UploadDone(ok)
    \/ LoadStart
    \/ \E h \in 1..(2 * MaxSeries + MaxLoads) : LoadDone(h)
    \/ PanelUnmount
    \/ \E s \in Probes : AdvSetup(s)
    \/ \E ok \in BOOLEAN : AdvInitialized(ok)
    \/ \E ok \in BOOLEAN : AdvImageIds(ok)
    \/ \E ok \in BOOLEAN : AdvVolumeCreated(ok)
    \/ \E ok \in BOOLEAN : AdvVolumesSet(ok)
    \/ \E n \in 0..MaxIds, active \in BOOLEAN : V2Effect(n, active)
    \/ V2Unmount
    \/ \E r \in RunIds, ok \in BOOLEAN : V2Ensured(r, ok)
    \/ \E r \in RunIds, res \in {"true", "false", "raise"} : V2Decided(r, res)
    \/ \E r \in RunIds, ok \in BOOLEAN : V2StackLoaded(r, ok)
    \/ \E r \in RunIds, ok \in BOOLEAN : V2VolumeCreated(r, ok)
    \/ \E r \in RunIds, ok \in BOOLEAN : V2VolumeLoaded(r, ok)
    \/ \E r \in RunIds, ok \in BOOLEAN : V2VolumesSet(r, ok)
    \/ \E s \in Probes : NewProbe(s)
    \/ \E d \in Deciders : Decide(d)
    \/ \E caller \in Viewers : Initialize6(caller)
    \/ \E a \in 1..Len(initRuns), r \in {"ok", "err"} : Settle6(a, r)
    \/ \E i \in 1..Len(initCallers) : Resume6(i)
    \/ InitCall
    \/ RetryInitialization
    \/ \E p \in Viewers : CreateToolGroup(p)
    \/ \E a \in pending : BootstrapOk(a)
    \/ \E a \in pending : BootstrapFail(a)
    \/ \E id \in EngineIds, force \in BOOLEAN : Release(id, force)
    \/ \E p \in Viewers, id \in EngineIds : Mount(p, id)
    \/ \E p \in Viewers : Unmount(p)
    \/ \E p \in Viewers : InitEffect(p)
    \/ \E p \in Viewers : InitEffectDone(p)
    \/ \E p \in Viewers : SetupStart(p)
    \/ \E p \in Viewers, valid \in BOOLEAN, vol \in BOOLEAN : SetupValidated(p, valid, vol)
    \/ \E p \in Viewers : AcqResume(p)
    \/ \E p \in Viewers : AcqStore(p)
    \/ \E p \in Viewers : SetupEnable(p)
    \/ \E p \in Viewers, ok \in BOOLEAN : VolumeStep(p, ok)
    \/ \E p \in Viewers, ok \in BOOLEAN : VolumeLoaded(p, ok)
    \/ \E p \in Viewers, ok \in BOOLEAN : StackLoaded(p, ok)

Spec == Init /\ [][Next]_vars

\* the bootstrap state machine alone, driven by direct calls
NextInit ==
    \/ InitCall
    \/ RetryInitialization
    \/ \E a \in pending : BootstrapOk(a)
    \/ \E a \in pending : BootstrapFail(a)

SpecInit == Init /\ [][NextInit]_vars

\* the bootstrap of the service of unnamed/part_006
NextInit6 ==
    \/ \E caller \in Viewers : Initialize6(caller)
    \/ \E a \in 1..Len(initRuns), r \in {"ok", "err"} : Settle6(a, r)
    \/ \E i \in 1..Len(initCallers) : Resume6(i)

SpecInit6 == Init /\ [][NextInit6]_vars

\* the volume-loadability decision on every series
NextDecision ==
    \/ \E s \in Probes : NewProbe(s)
    \/ \E d \in Deciders : Decide(d)

SpecDecision == InitDecision /\ [][NextDecision]_vars

\* the initialization effect of the second DicomViewer3D
NextViewer2 ==
    \/ \E n \in 0..MaxIds, active \in BOOLEAN : V2Effect(n, active)
    \/ V2Unmount
    \/ \E r \in RunIds, ok \in BOOLEAN : V2Ensured(r, ok)
    \/ \E r \in RunIds, res \in {"true", "false", "raise"} : V2Decided(r, res)
    \/ \E r \in RunIds, ok \in BOOLEAN : V2StackLoaded(r, ok)
    \/ \E r \in RunIds, ok \in BOOLEAN : V2VolumeCreated(r, ok)
    \/ \E r \in RunIds, ok \in BOOLEAN : V2VolumeLoaded(r, ok)
    \/ \E r \in RunIds, ok \in BOOLEAN : V2VolumesSet(r, ok)

SpecViewer2 == Init /\ [][NextViewer2]_vars

\* the setup effect of AdvancedViewer
NextAdvanced ==
    \/ \E s \in Probes : AdvSetup(s)
    \/ \E ok \in BOOLEAN : AdvInitialized(ok)
    \/ \E ok \in BOOLEAN : AdvImageIds(ok)
    \/ \E ok \in BOOLEAN : AdvVolumeCreated(ok)
    \/ \E ok \in BOOLEAN : AdvVolumesSet(ok)

SpecAdvanced == Init /\ [][NextAdvanced]_vars

\* uploading and loading series in the panel
NextBlobs ==
    \/ UploadStart
    \/ \E ok \in BOOLEAN : UploadDone(ok)
    \/ LoadStart
    \/ \E h \in 1..(2 * MaxSeries + MaxLoads) : LoadDone(h)
    \/ PanelUnmount

SpecBlobs == Init /\ [][NextBlobs]_vars

\* tool groups, tool changes by the helper and by the component
NextToolModes ==
    \/ \E g \in GroupIds : CreateGroupTools(g)
    \/ \E g \in GroupIds, t \in GroupTools : SetToolActive(g, t)
    \/ \E g \in GroupIds, u \in UiTools, created \in BOOLEAN : UpdateTool(g, u, created)

SpecToolModes == Init /\ [][NextToolModes]_vars

\* release calls on both services, with and without failures
NextRelease ==
    \/ \E c \in ReleaseCalls : NewReleaseCall(c)
    \/ \E r \in Releasers : ReleaseEnds(r)

SpecRelease == InitRelease /\ [][NextRelease]_vars

\* the annotation manager: initialisation and operations on annotations
NextAnnOps ==
    \/ \E ok \in BOOLEAN, supported \in BOOLEAN : AnnInitialize(ok, supported)
    \/ \E u \in Uids : Draw(u)
    \/ \E op \in Operations, u \in Uids, engineOk \in BOOLEAN : Operate(op, u, engineOk)
    \/ \E u \in Uids : Group(u, "g")
    \/ \E u \in Uids, engineOk \in BOOLEAN : Delete(u, engineOk)

SpecAnnOps == Init /\ [][NextAnnOps]_vars

\* the annotation manager: what keeps the locked and hidden sets and the
\* metadata entries
NextAnnMeta ==
    \/ \E ok \in BOOLEAN, supported \in BOOLEAN :
           listeners = 0 /\ AnnInitialize(ok, supported)
    \/ \E u \in Uids : Draw(u)
    \/ \E op \in Operations \ {"select", "deselect"}, u \in Uids, engineOk \in BOOLEAN :
           Operate(op, u, engineOk)
    \/ \E u \in Uids, m \in Partials : SetMetadata(u, m)
    \/ \E u \in Uids : ForeignRecord(u, FALSE)
    \/ LoadAnnotations
    \/ \E ok \in BOOLEAN, addSupported \in BOOLEAN :
           LoadFetched(ok, TRUE, addSupported)

SpecAnnMeta == Init /\ [][NextAnnMeta]_vars

\* the annotation manager: calls that add annotations to groups and remove
\* them
NextAnnGroups ==
    \/ \E u \in Uids, groupId \in AnnotationGroupIds : Group(u, groupId)
    \/ \E u \in Uids, groupId \in AnnotationGroupIds \cup {"none"} : Ungroup(u, groupId)

SpecAnnGroups == Init /\ [][NextAnnGroups]_vars

\* the annotation manager: annotations that are tracked, put into groups and
\* removed
NextAnnRemove ==
    \/ \E ok \in BOOLEAN, supported \in BOOLEAN : AnnInitialize(ok, supported)
    \/ \E u \in Uids : Draw(u)
    \/ \E op \in {"select", "lock"}, u \in Uids, engineOk \in BOOLEAN :
           Operate(op, u, engineOk)
    \/ \E u \in Uids, groupId \in {"g", "h"} : Group(u, groupId)
    \/ \E u \in Uids : Removed(u)
    \/ \E u \in Uids, engineOk \in BOOLEAN : Delete(u, engineOk)

SpecAnnRemove == Init /\ [][NextAnnRemove]_vars

\* the annotation manager with the annotations API: saving and loading
NextAnnStore ==
    \/ \E ok \in BOOLEAN, supported \in BOOLEAN : AnnInitialize(ok, supported)
    \/ \E u \in Uids : Draw(u)
    \/ \E op \in {"lock"}, u \in Uids, engineOk \in BOOLEAN :
           Operate(op, u, engineOk)
    \/ \E u \in Uids : Group(u, "g")
    \/ \E u \in Uids, engineOk \in BOOLEAN : Delete(u, engineOk)
    \/ \E u \in Uids, corrupt \in BOOLEAN : ForeignRecord(u, corrupt)
    \/ SaveStart
    \/ \E ok \in BOOLEAN : SaveCreate(ok)
    \/ LoadAnnotations
    \/ \E ok \in BOOLEAN, clearOk \in BOOLEAN, addSupported \in BOOLEAN :
           LoadFetched(ok, clearOk, addSupported)

SpecAnnStore == Init /\ [][NextAnnStore]_vars

\* determineFileFormat is applied to every file
NextFormat ==
    \/ \E f \in Files : NewFile(f)
    \/ DetermineFileFormat

SpecFormat == InitFormat /\ [][NextFormat]_vars

\* processImageSeries is applied to every upload
NextSeries ==
    \/ \E fs \in Uploads : \E bad \in SUBSET names(fs) : NewUpload(fs, bad)
    \/ ProcessImageSeries

SpecSeries == InitSeries /\ [][NextSeries]_vars

\* the bootstrap of the service of unnamed/part_005
NextInit5 ==
    \/ \E syncThrow \in BOOLEAN : Initialize5(syncThrow)
    \/ \E a \in 1..Len(runs5), r \in {"ok", "err"} : Settle5(a, r)

SpecInit5 == Init /\ [][NextInit5]_vars

\* the bootstrap of whichever implementation the build holds; every
\* bootstrap that was started settles, and a call that can resume does
NextSettle ==
    \/ service = "cornerstoneService.ts" /\ NextInit
    \/ service = "part_005" /\ NextInit5
    \/ service = "part_006" /\ NextInit6

Settles ==
    /\ \A a \in 1..MaxCalls : WF_vars(BootstrapOk(a) \/ BootstrapFail(a))
    /\ \A a \in 1..MaxCalls : WF_vars(Settle5(a, "ok") \/ Settle5(a, "err"))
    /\ \A a \in 1..MaxCalls : WF_vars(Settle6(a, "ok") \/ Settle6(a, "err"))
    /\ \A i \in 1..MaxCalls : WF_vars(Resume6(i))

SpecSettle == InitSettle /\ [][NextSettle]_vars /\ Settles

\* the components and the registry; bootstraps are started by the components
NextViewer ==
    \/ \E a \in pending : BootstrapOk(a)
    \/ \E a \in pending : BootstrapFail(a)
    \/ \E id \in EngineIds, force \in BOOLEAN : Release(id, force)
    \/ \E p \in Viewers, id \in EngineIds : Mount(p, id)
    \/ \E p \in Viewers : Unmount(p)
    \/ \E p \in Viewers : InitEffect(p)
    \/ \E p \in Viewers : InitEffectDone(p)
    \/ \E p \in Viewers : SetupStart(p)
    \/ \E p \in Viewers, valid \in BOOLEAN, vol \in BOOLEAN : SetupValidated(p, valid, vol)
    \/ \E p \in Viewers : AcqResume(p)
    \/ \E p \in Viewers : AcqStore(p)
    \/ \E p \in Viewers : SetupEnable(p)
    \/ \E p \in Viewers, ok \in BOOLEAN : VolumeStep(p, ok)
    \/ \E p \in Viewers, ok \in BOOLEAN : VolumeLoaded(p, ok)
    \/ \E p \in Viewers, ok \in BOOLEAN : StackLoaded(p, ok)

SpecViewer == Init /\ [][NextViewer]_vars

\* the components and the registry, with tool groups on the enabled viewports
NextTools ==
    \/ NextViewer
    \/ \E p \in Viewers : CreateToolGroup(p)

SpecTools == Init /\ [][NextTools]_vars

----------------------------------------------------------------------------
(* Properties of the bootstrap state machine (checked under SpecInit) *)

\* a step in which initialize() / retryInitialization() is called directly
InitializeStep ==
    Len(calls') = Len(calls) + 1 /\ calls'[Len(calls')].via = "initialize"

RetryStep ==
    Len(calls') = Len(calls) + 1 /\ calls'[Len(calls')].via = "retry"

\* the promise handed to the caller by the call of this step
NewCall == calls'[Len(calls')]

\* the lifecycle states of the service, read off its fields
INITIALIZING == ~initialized /\ initializing /\ initPromise # 0
FAILED == ~initialized /\ ~initializing /\ initError # 0 /\ retryCount < maxRetries
EXHAUSTED == ~initialized /\ initError # 0 /\ retryCount >= maxRetries

\* C2: an initialize() call issued while the service is INITIALIZING starts no
\* bootstrap: the caller gets the promise of the attempt in flight, and when
\* an attempt settles, every caller attached to it receives its outcome.
C2_SharedAttempt ==
    [][ /\ (InitializeStep /\ INITIALIZING) =>
              /\ started' = started
              /\ pending' = pending
              /\ initPromise \in pending
              /\ NewCall.att = initPromise
              /\ NewCall.result = "pending"
        /\ \A a \in pending \ pending' : \A i \in 1..Len(calls) :
              calls[i].att = a =>
                  /\ calls[i].result = "pending"
                  /\ calls'[i].result = IF initError' = a THEN "err" ELSE "ok"
      ]_vars

\* a caller that joined an attempt in flight has received its outcome
C2_Witness ==
    \E i \in 1..Len(calls) :
        /\ calls[i].via = "initialize"
        /\ calls[i].kind = "joined"
        /\ calls[i].result \in {"ok", "err"}
        /\ \E j \in 1..(i - 1) : /\ calls[j].att = calls[i].att
                                 /\ calls[j].kind = "started"
                                 /\ calls[j].result = calls[i].result

\* C3: after a bootstrap of the service of unnamed/part_006 has failed (one
\* failure, fewer than maxRetries), the next initialize() call starts a new
\* bootstrap and hands its pending promise to the caller instead of the
\* earlier failure.
C3_FailedIsRetried ==
    [][ (/\ Len(initCallers') = Len(initCallers) + 1
         /\ ~initialized6
         /\ \E a \in 1..Len(initRuns) : initRuns[a] = "err"
         /\ Len(initRuns) < maxRetries) =>
            /\ Len(initRuns') = Len(initRuns) + 1
            /\ initCallers'[Len(initCallers')].result = "pending"
      ]_vars

\* C3 on cornerstoneService.ts: an initialize() call issued in FAILED (a
\* bootstrap failed, fewer than maxRetries failures so far) starts a new
\* bootstrap attempt and hands its pending promise to the caller.
C3_RetryAfterFailure ==
    [][ (InitializeStep /\ FAILED) =>
            /\ started' = started + 1
            /\ pending' = pending \cup {started'}
            /\ NewCall.att = started'
            /\ NewCall.result = "pending"
            /\ initializing' /\ initPromise' = started'
      ]_vars

\* only initialize() was called; a started attempt failed and a later call
\* started the next attempt
C3_Witness ==
    /\ \A i \in 1..Len(calls) : calls[i].via = "initialize"
    /\ \E i \in 1..Len(calls) : \E j \in 1..(i - 1) :
           /\ calls[j].kind = "started" /\ calls[j].result = "err"
           /\ calls[i].kind = "started" /\ calls[i].att = calls[j].att + 1

\* C4: once maxRetries failures are recorded, an initialize() call fails
\* fast with the initialization error: it starts no bootstrap attempt and
\* leaves the service as it was.
C4_FailFast ==
    [][ (InitializeStep /\ EXHAUSTED) =>
            /\ started' = started
            /\ pending' = pending
            /\ NewCall.result = "err"
            /\ NewCall.att = 0
            /\ svcVars' = svcVars
      ]_vars

\* three attempts failed and a later initialize() call failed fast
C4_Witness ==
    /\ \A i \in 1..Len(calls) : calls[i].via = "initialize"
    /\ retryCount = maxRetries
    /\ started = maxRetries
    /\ \E i \in 1..Len(calls) : calls[i].kind = "failfast" /\ calls[i].result = "err"

\* C5: a manual reset (retryInitialization) issued in EXHAUSTED re-arms the
\* retries: the call starts a new bootstrap attempt.
C5_ResetRearms ==
    [][ (RetryStep /\ EXHAUSTED) =>
            /\ started' = started + 1
            /\ NewCall.result = "pending"
      ]_vars

----------------------------------------------------------------------------
(* Properties of the engine registry and of the components
   (checked under SpecViewer and SpecTools) *)

\* C1: when two getRenderingEngine calls for an unregistered id were both
\* issued before either resolved, then once both have resolved one engine
\* was created for them: both hold the registered, live engine and its
\* reference count is 2.
C1_ConcurrentAcquire ==
    \A p \in overlap : \A q \in overlap \ {p} :
        (engineId[p] = engineId[q] /\ pc[p] = "gotEngine" /\ pc[q] = "gotEngine") =>
            /\ held[p] = held[q]
            /\ engines[held[p]].state = "live"
            /\ renderingEngines[engineId[p]].engine = held[p]
            /\ renderingEngines[engineId[p]].refCount = 2

\* C6: when a release removes the registry entry of an id, no tool group
\* bound to a viewport of that engine id and no engine of that id can be
\* found afterwards.
C6_ReleaseDestroysAll ==
    [][ \A id \in EngineIds :
            (renderingEngines[id].engine # 0 /\ renderingEngines'[id].engine = 0) =>
                /\ \A g \in toolGroups' : g.engineId # id
                /\ \A e \in 1..Len(engines') :
                       engines'[e].name = id => engines'[e].state # "live"
      ]_vars

\* what releaseRenderingEngine(id, force) has to do on a registered id
ReleasePost(id, force) ==
    LET entry == renderingEngines[id] IN
    entry.engine # 0 =>
        IF entry.refCount - 1 <= 0 \/ force
        THEN /\ renderingEngines'[id] = NoEntry
             /\ \A e \in 1..Len(engines') :
                    engines'[e].name = id => engines'[e].state # "live"
             /\ \A v \in viewports' : engines'[v.engine].name # id
        ELSE /\ renderingEngines'[id] = [entry EXCEPT !.refCount = entry.refCount - 1]
             /\ renderingEngines'[id].refCount > 0
             /\ engines' = engines
             /\ viewports' = viewports
             /\ toolGroups' = toolGroups

C9_NoUseAfterRelease == staleOps = {}

\* C10: when every component is unmounted and none of their asynchronous
\* work is left, no rendering engine and no tool group they created is alive.
C10_NothingLeftAlive ==
    (\A p \in Viewers : ~mounted[p] /\ pc[p] = "idle") =>
        /\ \A e \in EngineObjs : engines[e].state # "live"
        /\ toolGroups = {}

----------------------------------------------------------------------------
(* Properties of the volume-loadability decision (checked under SpecDecision) *)

\* C15: for a series of fewer than 3 identifiers every canLoadAsVolume
\* implementation answers false.
C15_FewerThanThree ==
    \A d \in Deciders :
        (probe.n < 3 /\ verdict[d] # "none") => verdict[d] = "false"

\* a series of two identifiers with complete metadata was refused
C15_Witness ==
    /\ probe.n = 2 /\ probe.meta = Fields /\ probe.loads /\ probe.inits
    /\ \A d \in Deciders : verdict[d] = "false"

\* C16: for a series of at least 3 identifiers whose first identifier can be
\* probed, every canLoadAsVolume implementation answers true if all four
\* fields are present and false if any one is missing.
C16_FourFields ==
    \A d \in Deciders :
        (probe.n >= 3 /\ probe.loads /\ probe.inits /\ verdict[d] # "none") =>
            verdict[d] = answer(Fields \subseteq probe.meta)

\* C17: when probing the first identifier fails, the implementations that
\* probe it answer false and do not raise.
C17_ProbeFailure ==
    \A d \in {"cornerstone3DInit:180", "part_003"} :
        (~probe.loads /\ verdict[d] # "none") => verdict[d] = "false"

\* the probe of a series of 3 or more identifiers failed and both answered false
C17_Witness ==
    /\ probe.n >= 3 /\ ~probe.loads /\ probe.meta = Fields
    /\ verdict["cornerstone3DInit:180"] = "false"
    /\ verdict["part_003"] = "false"

----------------------------------------------------------------------------
(* Properties of the initialization effect of the second DicomViewer3D      *)
(* (checked under SpecViewer2)                                              *)

\* C11: a setup whose cancellation flag was set while it was suspended
\* commits nothing afterwards: no state update and no load callback is ever
\* made by a cancelled run.
C11_CancelledCommitsNothing == lateCommits = {}

\* C12: when the decision was true and a step of the volume load failed, the
\* run goes on to load the identifiers as a stack, and it reports a failure
\* to the caller only after that stack load was tried.
C12_VolumeFailureFallsBack ==
    \A r \in 1..Len(runs) :
        (runs[r].volumeFailed /\ ~runs[r].isCancelled) =>
            /\ runs[r].stackTried
            /\ (reports[r].made /\ ~reports[r].success) => runs[r].stackTried

----------------------------------------------------------------------------
(* Properties of the setup effect of AdvancedViewer (checked under          *)
(* SpecAdvanced)                                                            *)

\* C14: a viewport is in volume mode only if its series has at least 3
\* identifiers and the metadata of the first identifier has all four
\* geometric fields.
C14_VolumeOnlyIfEligible ==
    adv.mode = "volume" => (adv.n >= 3 /\ Fields \subseteq adv.meta)

\* C18: a series with exactly one identifier is never loaded in volume mode.
C18_SingleNeverVolume ==
    ~(adv.n = 1 /\ adv.pc \in {"createVolume", "setVolumes", "done"})

----------------------------------------------------------------------------
(* Property of the result setupViewport reports (checked under SpecViewer) *)

\* C13: a load that fell back from volume to stack and succeeded is not
\* reported with the result a successful volume load is reported with.
C13_DegradationReported ==
    [][\A p \in Viewers :
          (FellBack(p) /\ usable(held[p]) /\ StackLoaded(p, TRUE)) =>
              loadReport(isVolumeData[p]) # loadReport(TRUE)]_vars

----------------------------------------------------------------------------
(* Properties of the object URLs of uploaded series (checked under SpecBlobs) *)

\* C19: every object URL created for a file of a series is revoked at most
\* once, and has been revoked exactly once when its series is discarded.
C19_RevokedExactlyOnce ==
    \A h \in HandleIds :
        /\ handles[h].revokes <= 1
        /\ handles[h].series \in discarded => handles[h].revokes = 1

\* C20: the current series and the images loaded in the viewports hold no
\* object URL that has been revoked.
C20_NoUseAfterRevoke ==
    /\ \A h \in loadedImages : handles[h].revokes = 0
    /\ panelMounted =>
          \A h \in HandleIds :
              handles[h].series = currentSeries => handles[h].revokes = 0

----------------------------------------------------------------------------
(* Property of the tool groups (checked under SpecToolModes) *)

\* C21: at every point at most one tool is in the active state in each
\* tool group.
C21_OneActiveTool == \A g \in GroupIds : Cardinality(activeTools(g)) <= 1

----------------------------------------------------------------------------
(* Property of what release gives its caller (checked under SpecRelease) *)

\* C22: when destroying the engine fails during a release, the failure is
\* raised to the caller if force is false and suppressed if force is true.
C22_DestroyFailureRaised ==
    \A r \in Releasers :
        (releaseEnd[r].made /\ releaseEnd[r].destroyFailed) =>
            releaseEnd[r].how = (IF releaseCall.force THEN "returned" ELSE "raised")

----------------------------------------------------------------------------
(* Properties of the annotation manager's operations (checked under         *)
(* SpecAnnOps)                                                              *)

\* C23: however often initialize(toolGroupId) is called, the engine holds the
\* listeners of one call, so each engine signal is handled once.
C23_InitializeIdempotent == listeners <= 1

\* C24: each of select, deselect, lock, unlock, hide and show updates the
\* local state whether or not the engine call succeeds, and returns normally.
C24_LocalThenBestEffort ==
    [][\A op \in Operations, u \in Uids, engineOk \in BOOLEAN :
          Operate(op, u, engineOk) =>
              /\ lastHow' = "returned"
              /\ (op = "select") => u \in ann'.selected
              /\ (op = "deselect") => u \notin ann'.selected
              /\ (op = "lock") => u \in ann'.lockedAnnotations
              /\ (op = "unlock") => u \notin ann'.lockedAnnotations
              /\ (op = "hide") => u \in ann'.hiddenAnnotations
              /\ (op = "show") => u \notin ann'.hiddenAnnotations]_vars

\* an annotation is selected, locked and hidden in the local state
C24_Witness ==
    /\ lastHow = "returned"
    /\ \E u \in Uids : /\ u \in ann.selected
                       /\ u \in ann.lockedAnnotations
                       /\ u \in ann.hiddenAnnotations
                       /\ u \notin annEngine

----------------------------------------------------------------------------
(* Properties of saving and loading annotations (checked under              *)
(* SpecAnnStore)                                                            *)

\* C25: after loadAnnotations has fetched the records, with an engine that
\* removes its annotations, every annotation of the local state (selected,
\* locked, hidden, group members, metadata) and of the engine is one
\* recreated from the fetched records.
C25_OnlyRecreatedRemain ==
    [][\A addSupported \in BOOLEAN :
          LoadFetched(TRUE, TRUE, addSupported) =>
              (ann'.selected \cup ann'.lockedAnnotations
                 \cup ann'.hiddenAnnotations \cup grouped(ann')
                 \cup metadataKeys(ann') \cup annEngine')
                   \subseteq recreated(annRecords)]_vars

\* C26: after a save followed by a load, each recreated annotation has the
\* locked, hidden and group state it had when it was saved.
C26_MetadataReapplied ==
    [][\A clearOk \in BOOLEAN, addSupported \in BOOLEAN :
          (LoadFetched(TRUE, clearOk, addSupported) /\ roundTrip = "saved") =>
              \A u \in recreated(annRecords) \cap annEngine :
                  /\ (u \in ann'.lockedAnnotations) = (u \in ann.lockedAnnotations)
                  /\ (u \in ann'.hiddenAnnotations) = (u \in ann.hiddenAnnotations)
                  /\ ann'.metadata[u].groupId = ann.metadata[u].groupId]_vars

\* C27: a record that fails to be reconstructed does not stop the load: every
\* fetched record that can be parsed has its metadata entry afterwards.
C27_LoopContinues ==
    [][\A clearOk \in BOOLEAN, addSupported \in BOOLEAN :
          LoadFetched(TRUE, clearOk, addSupported) =>
              /\ recreated(annRecords) \subseteq metadataKeys(ann')
              /\ \A i \in DOMAIN annRecords, j \in DOMAIN annRecords :
                     (i < j /\ annRecords[i].corrupt /\ ~annRecords[j].corrupt)
                         => annRecords[j].uid \in loadedAfterFailure']_vars

\* a load has reconstructed a record that follows one that failed
C27_Witness ==
    /\ ~loading
    /\ \E i \in DOMAIN annRecords, j \in DOMAIN annRecords :
           /\ i < j /\ annRecords[i].corrupt /\ ~annRecords[j].corrupt
           /\ annRecords[j].uid \in loadedAfterFailure
           /\ ann.metadata[annRecords[j].uid].has

\* C28: a save followed by a load, both complete and with an engine that
\* removes and takes annotations, leaves the uids the group had before.
C28_RoundTripUids ==
    [][(LoadFetched(TRUE, TRUE, TRUE) /\ roundTrip = "saved") =>
           annEngine' = annEngine]_vars

----------------------------------------------------------------------------
(* Properties of the file classifier (checked under SpecFormat and          *)
(* SpecSeries)                                                              *)

\* C29: every file of at least 132 bytes whose bytes 128..131 are "DICM",
\* and whose header can be read, is classified as dicom, whatever its
\* extension or declared content type.
C29_MagicMeansDicom ==
    (formatInfo # "none" /\ file.size >= 132 /\ file.magic = "DICM" /\ ~file.readFails)
        => formatInfo = "dicom"

\* C30: the image ids of a series are in ascending filename order of the
\* files they were built from (the DICOMDIR index file aside).
C30_IdsAscending ==
    (imageSeries.made /\ ~imageSeries.thrown) =>
        \A i \in DOMAIN imageSeries.images, j \in DOMAIN imageSeries.images :
            (/\ i < j
             /\ ~isDicomdir(imageSeries.images[i].imageId)
             /\ ~isDicomdir(imageSeries.images[j].imageId))
                => rank(imageSeries.images[i].imageId) < rank(imageSeries.images[j].imageId)

\* C31: when one file of an upload of several files cannot be classified or
\* decoded, the series holds every other file of the upload that is valid.
C31_OthersKept ==
    (imageSeries.made /\ Len(files) > 1 /\ Cardinality(damaged) = 1) =>
        \A n \in names(files) \ damaged :
            determineFileFormat(fileOf(n, {})) # "unknown" =>
                \E i \in DOMAIN imageSeries.images : imageSeries.images[i].file = n

\* C39: each image of a series has the identifier built from its own file.
C39_OwnIdentifier ==
    imageSeries.made =>
        \A i \in DOMAIN imageSeries.images :
            imageSeries.images[i].imageId = imageSeries.images[i].file

----------------------------------------------------------------------------
(* Further properties of the bootstrap (checked under SpecInit)             *)

\* C32: at most one bootstrap attempt is in flight at any time, whatever the
\* interleaving of initialize() and retryInitialization() calls.
C32_OneAttemptInFlight == Cardinality(pending) <= 1

\* C33: the recorded number of bootstrap failures never exceeds maxRetries.
C33_RetryCountBounded == retryCount <= maxRetries

----------------------------------------------------------------------------
(* Every initialize() call settles (checked under SpecSettle)               *)

\* C34: every initialize() call eventually resolves or rejects when every
\* bootstrap attempt settles, on each implementation of the service.
C34_EveryCallSettles ==
    \A i \in 1..MaxCalls :
        /\ (Len(calls) >= i /\ calls[i].result = "pending")
               ~> (Len(calls) >= i /\ calls[i].result # "pending")
        /\ (Len(callers5) >= i /\ callers5[i].result = "pending")
               ~> (Len(callers5) >= i /\ callers5[i].result # "pending")
        /\ (Len(initCallers) >= i /\ initCallers[i].result = "pending")
               ~> (Len(initCallers) >= i /\ initCallers[i].result # "pending")

\* a call that joined a bootstrap in flight was rejected when it failed
C34_Witness ==
    /\ service = "cornerstoneService.ts"
    /\ \E i \in 1..Len(calls) :
           /\ calls[i].kind = "joined"
           /\ calls[i].result = "err"
           /\ initError = calls[i].att

----------------------------------------------------------------------------
(* Properties of the annotation manager's collections (checked under        *)
(* SpecAnnMeta and SpecAnnOps)                                              *)

\* C35: a uid is in the locked set exactly when its metadata entry has
\* isLocked true, and in the hidden set exactly when its metadata entry has
\* isVisible false.
C35_SetsMatchMetadata ==
    \A u \in Uids :
        /\ (u \in ann.lockedAnnotations) = (ann.metadata[u].isLocked = "true")
        /\ (u \in ann.hiddenAnnotations) = (ann.metadata[u].isVisible = "false")

\* C36: each uid is a member of at most one group, and it is a member of
\* group g exactly when the groupId of its metadata entry is g.
C36_OneGroupPerUid ==
    \A u \in Uids :
        /\ Cardinality({g \in AnnotationGroupIds : u \in ann.annotationGroups[g]}) <= 1
        /\ \A g \in AnnotationGroupIds :
               (u \in ann.annotationGroups[g]) = (ann.metadata[u].groupId = g)

\* the uids the local state of the tool group holds in some collection
tracked(st) ==
    st.selected \cup st.lockedAnnotations \cup st.hiddenAnnotations
        \cup grouped(st) \cup metadataKeys(st)

\* C37: after the listener has handled the engine's 'removed' signal for a
\* uid, or after deleteAnnotation for the uid, the uid is in none of the
\* selected, locked, hidden, group and metadata collections.
C37_RemovedEverywhere ==
    [][\A u \in Uids :
          ((Removed(u) /\ listeners > 0)
              \/ \E engineOk \in BOOLEAN : Delete(u, engineOk))
          => u \notin tracked(ann')]_vars

\* C38: when the fetch of the records fails, loadAnnotations leaves the local
\* state of the tool group and the annotations of the engine as they were and
\* returns to its caller without raising.
C38_FetchFailureKeepsState ==
    [][\A clearOk \in BOOLEAN, addSupported \in BOOLEAN :
          LoadFetched(FALSE, clearOk, addSupported) =>
              /\ ann' = ann
              /\ annEngine' = annEngine
              /\ lastHow' = "returned"]_vars

\* a load whose fetch failed has ended for a group that tracks a locked
\* annotation the engine holds
C38_Witness ==
    /\ loadCaught
    /\ ~loading
    /\ \E u \in Uids : /\ u \in ann.lockedAnnotations
                       /\ ann.metadata[u].has
                       /\ u \in annEngine

\* C40: a saveAnnotations call that follows a complete save of the same tool
\* group and study, with no change of the annotations in between, persists
\* no record: the API holds the records it held, so that a later load
\* recreates each uid once.
C40_NothingPersistedTwice ==
    [][\A ok \in BOOLEAN :
          (SaveCreate(ok) /\ roundTrip = "resaving") =>
              annRecords' = annRecords]_vars

====
